---- MODULE Spec2Model ----
(***************************************************************************)
(* Model of nova/virt/xenapi/vm_utils.py: the scoped disk attachment       *)
(* (with_vdi_attached_here, vbd_unplug_with_retry, ignore_failure,         *)
(* _wait_for_device, remap_vbd_dev) and the coalesce waiter                *)
(* (wait_for_vhd_coalesce).                                                *)
(*                                                                         *)
(* The hypervisor (XenAPI session) is the environment: every remote call   *)
(* answers nondeterministically with success or a XenAPI.Failure whose     *)
(* details list is drawn from a small set.                                 *)
(***************************************************************************)
EXTENDS Integers, Sequences, FiniteSets, TLC

(* ------------------------------ bounds --------------------------------- *)

\* History counters (unplug attempts, rejections, sleeps) saturate here, so
\* that a hypervisor that rejects every unplug is an infinite behaviour of a
\* finite model.
MaxCount == 4

\* FLAGS.block_device_creation_timeout (default 10), kept small.
block_device_creation_timeout == 2

\* Largest FLAGS.xenapi_vhd_coalesce_max_attempts tried.
MaxAttempts == 3

\* Length of the parent-UUID sequence the storage backend shows to the polls.
MaxPolls == 3

(* ----------------------------- constants -------------------------------- *)

None == "None"

\* Concurrent invocations of with_vdi_attached_here.
Calls == {"c1", "c2"}

\* VBD references the hypervisor can hand out.
VbdRefs == {"vbd1", "vbd2"}

\* Return values and errors of the caller operation f.
Values == {"v1", "v2"}
FErrors == {"OperationError"}

DETACH_REJECTED == "DEVICE_DETACH_REJECTED"
ALREADY_DETACHED == "DEVICE_ALREADY_DETACHED"

\* A remote call's answer: success, or XenAPI.Failure carrying e.details.
Ok == [ok |-> TRUE, details |-> <<>>]
Failure(details) == [ok |-> FALSE, details |-> details]

\* The details lists of the failures VBD.unplug can raise.
UnplugFailureDetails ==
    { <<>>,
      <<DETACH_REJECTED>>,
      <<ALREADY_DETACHED>>,
      <<"INTERNAL_ERROR">>,
      <<"INTERNAL_ERROR", DETACH_REJECTED>> }

\* Device names as token sequences: 'xvdb' is <<"xvd", "b">>.
OrigDevices == { <<"xvd", "b">>, <<"autodetect">> }
xenapi_remap_vbd_dev_prefix == "sd"

\* time.sleep(1) between unplug attempts, in seconds.
UnplugRetrySleep == 1

\* Outcome of a Python call: a returned value or a raised error.
Return(v) == [kind |-> "return", val |-> v]
Raise(e) == [kind |-> "raise", val |-> e]
NoOutcome == [kind |-> "none", val |-> None]

VARIABLES
    calls,          \* per invocation of with_vdi_attached_here: its locals
    vbds,           \* hypervisor: VBD records and the calls made on them
    should_remap,   \* FLAGS.xenapi_remap_vbd_dev
    co,             \* wait_for_vhd_coalesce: its locals
    parents,        \* storage backend: parent UUID shown to each poll
    fetch,          \* fetch_image and _stream_disk: their locals
    xen,            \* hypervisor and dom0 as the fetch sees them: the VDI,
                    \* the plugin calls, the block device
    conv,           \* ImageType.to_string / from_string: inputs and results
    pv,             \* determine_is_pv: its inputs, locals and result
    snap            \* create_snapshot: its locals and result

vars ==
    <<calls, vbds, should_remap, co, parents, fetch, xen, conv, pv, snap>>

\* The variables of the image ingestion pipeline.
fetchVars == <<fetch, xen, conv, pv, snap>>

Sat(n) == IF n < MaxCount THEN n + 1 ELSE n

(* ----------------------- scoped disk attachment ------------------------- *)

\* The VDI the scoped attachments are made on.
VdiRef == "vdi-ref-1"

IdleCall ==
    [pc |-> "idle", vdi_ref |-> VdiRef,
     vbd_ref |-> None, orig_dev |-> <<>>, dev |-> <<>>,
     i |-> 0, checks |-> 0, plug_ok |-> FALSE, f |-> "none",
     pending |-> NoOutcome, outcome |-> NoOutcome,
     sleeps |-> 0, slept |-> 0, last |-> <<>>, destroy |-> <<>>]

NoVbd ==
    [state |-> "none", VDI |-> None, creates |-> 0, plugs |-> 0,
     unplugs |-> 0, rejected |-> 0, destroys |-> 0]

\* remap_vbd_dev: dev.replace('xvd', new_prefix) when the flag is set.
remap_vbd_dev(dev) ==
    IF ~should_remap THEN dev
    ELSE [k \in DOMAIN dev |->
            IF dev[k] = "xvd" THEN xenapi_remap_vbd_dev_prefix ELSE dev[k]]

\* The hypervisor refused the detach: the failure's code is
\* DEVICE_DETACH_REJECTED.
DetachRejected(answer) ==
    ~answer.ok /\ answer.details # <<>> /\ answer.details[1] = DETACH_REJECTED

\* What the hypervisor can answer to VBD.unplug for a VBD in a given state.
HypUnplugAnswers(state) ==
    IF state = "attached"
    THEN {Ok} \cup {Failure(d) : d \in UnplugFailureDetails \ {<<ALREADY_DETACHED>>}}
    ELSE {Failure(d) : d \in UnplugFailureDetails \ {<<DETACH_REJECTED>>}}

\* What the hypervisor can answer to VBD.destroy: an attached VBD cannot be
\* destroyed.
HypDestroyAnswers(state) ==
    IF state = "detached"
    THEN {Ok, Failure(<<"INTERNAL_ERROR">>)}
    ELSE {Failure(<<"OPERATION_NOT_ALLOWED">>)}

\* VBD.create: the record is created before the try block; a failure here
\* raises straight to the caller.
FreeVbdRefs == {r \in VbdRefs : vbds[r].state = "none"}

VBDCreate(c) ==
    /\ calls[c].pc = "create"
    /\ \/ /\ FreeVbdRefs # {}
          /\ LET r == CHOOSE q \in FreeVbdRefs : TRUE IN
               /\ vbds' = [vbds EXCEPT ![r].state = "detached",
                                       ![r].VDI = calls[c].vdi_ref,
                                       ![r].creates = @ + 1]
               /\ calls' = [calls EXCEPT ![c].vbd_ref = r, ![c].pc = "plug"]
       \/ /\ calls' = [calls EXCEPT ![c].outcome = Raise("CreateFailure"),
                                    ![c].pc = "done"]
          /\ vbds' = vbds
    /\ UNCHANGED <<should_remap, co, parents, fetchVars>>

\* Variant: VBD.plug called before the try block, so that its failure skips
\* the finally clause.
VBDPlug_OutsideTry(c) ==
    /\ calls[c].pc = "plug"
    /\ LET r == calls[c].vbd_ref IN
        \/ /\ vbds' = [vbds EXCEPT ![r].state = "attached",
                                   ![r].plugs = @ + 1]
           /\ calls' = [calls EXCEPT ![c].plug_ok = TRUE,
                                     ![c].pc = "get_device"]
        \/ /\ vbds' = [vbds EXCEPT ![r].plugs = @ + 1]
           /\ calls' = [calls EXCEPT ![c].outcome = Raise("PlugFailure"),
                                     ![c].pc = "done"]
    /\ UNCHANGED <<should_remap, co, parents, fetchVars>>

\* Variant: a failure of VBD.plug is swallowed and the try block goes on.
VBDPlug_SwallowFailure(c) ==
    /\ calls[c].pc = "plug"
    /\ LET r == calls[c].vbd_ref IN
        \/ /\ vbds' = [vbds EXCEPT ![r].state = "attached",
                                   ![r].plugs = @ + 1]
           /\ calls' = [calls EXCEPT ![c].plug_ok = TRUE,
                                     ![c].pc = "get_device"]
        \/ /\ vbds' = [vbds EXCEPT ![r].plugs = @ + 1]
           /\ calls' = [calls EXCEPT ![c].pc = "get_device"]
    /\ UNCHANGED <<should_remap, co, parents, fetchVars>>

\* try: VBD.plug.  A failure leaves the try block with the error pending and
\* enters the finally clause.
VBDPlug(c) ==
    /\ calls[c].pc = "plug"
    /\ LET r == calls[c].vbd_ref IN
        \/ /\ vbds' = [vbds EXCEPT ![r].state = "attached",
                                   ![r].plugs = @ + 1]
           /\ calls' = [calls EXCEPT ![c].plug_ok = TRUE,
                                     ![c].pc = "get_device"]
        \/ /\ vbds' = [vbds EXCEPT ![r].plugs = @ + 1]
           /\ calls' = [calls EXCEPT ![c].pending = Raise("PlugFailure"),
                                     ![c].pc = "unplug"]
    /\ UNCHANGED <<should_remap, co, parents, fetchVars>>

\* VBD.get_device, remap_vbd_dev, and the test whether to wait for the node.
VBDGetDevice(c) ==
    /\ calls[c].pc = "get_device"
    /\ \/ \E d \in OrigDevices :
            LET dev == remap_vbd_dev(d) IN
            calls' = [calls EXCEPT
                        ![c].orig_dev = d,
                        ![c].dev = dev,
                        ![c].pc = IF dev # <<"autodetect">>
                                  THEN "wait" ELSE "f_call"]
       \/ calls' = [calls EXCEPT ![c].pending = Raise("GetDeviceFailure"),
                                 ![c].pc = "unplug"]
    /\ UNCHANGED <<vbds, should_remap, co, parents, fetchVars>>

\* Variant: after the timeout the caller operation is started all the same.
WaitForDevice_TimeoutIgnored(c) ==
    /\ calls[c].pc = "wait"
    /\ IF calls[c].i < block_device_creation_timeout
       THEN \/ calls' = [calls EXCEPT ![c].checks = @ + 1,
                                      ![c].pc = "f_call"]
            \/ calls' = [calls EXCEPT ![c].checks = @ + 1,
                                      ![c].i = @ + 1]
       ELSE calls' = [calls EXCEPT ![c].pending = Raise("StorageError"),
                                   ![c].pc = "f_call"]
    /\ UNCHANGED <<vbds, should_remap, co, parents, fetchVars>>

\* Variant: the loop makes one check more than the timeout allows.
WaitForDevice_OneMore(c) ==
    /\ calls[c].pc = "wait"
    /\ IF calls[c].i <= block_device_creation_timeout
       THEN \/ calls' = [calls EXCEPT ![c].checks = @ + 1,
                                      ![c].pc = "f_call"]
            \/ calls' = [calls EXCEPT ![c].checks = @ + 1,
                                      ![c].i = @ + 1]
       ELSE calls' = [calls EXCEPT ![c].pending = Raise("StorageError"),
                                   ![c].pc = "unplug"]
    /\ UNCHANGED <<vbds, should_remap, co, parents, fetchVars>>

\* _wait_for_device: one iteration of the for loop (a check of the device
\* node, then a one-second sleep), or the StorageError after the loop.
WaitForDevice(c) ==
    /\ calls[c].pc = "wait"
    /\ IF calls[c].i < block_device_creation_timeout
       THEN \/ calls' = [calls EXCEPT ![c].checks = @ + 1,
                                      ![c].pc = "f_call"]
            \/ calls' = [calls EXCEPT ![c].checks = @ + 1,
                                      ![c].i = @ + 1]
       ELSE calls' = [calls EXCEPT ![c].pending = Raise("StorageError"),
                                   ![c].pc = "unplug"]
    /\ UNCHANGED <<vbds, should_remap, co, parents, fetchVars>>

\* return f(dev): the caller operation starts ...
FCall(c) ==
    /\ calls[c].pc = "f_call"
    /\ calls' = [calls EXCEPT ![c].f = "running", ![c].pc = "f_run"]
    /\ UNCHANGED <<vbds, should_remap, co, parents, fetchVars>>

\* ... and finishes, returning a value or raising.
FFinish(c) ==
    /\ calls[c].pc = "f_run"
    /\ \/ \E v \in Values :
            calls' = [calls EXCEPT ![c].f = "returned",
                                   ![c].pending = Return(v),
                                   ![c].pc = "unplug"]
       \/ \E e \in FErrors :
            calls' = [calls EXCEPT ![c].f = "raised",
                                   ![c].pending = Raise(e),
                                   ![c].pc = "unplug"]
    /\ UNCHANGED <<vbds, should_remap, co, parents, fetchVars>>

\* Variant: a failure with an unknown code is re-raised.
UnplugDisposition_RaiseOther(answer) ==
    IF answer.ok THEN "return"
    ELSE IF Len(answer.details) > 0 /\ answer.details[1] = DETACH_REJECTED
         THEN "retry"
    ELSE IF Len(answer.details) > 0 /\ answer.details[1] = ALREADY_DETACHED
         THEN "return"
    ELSE "raise"

\* Variant: DEVICE_DETACH_REJECTED is logged and ignored like any other code.
UnplugDisposition_GiveUpOnReject(answer) ==
    "return"

\* Variant: the return after a successful unplug is missing.
UnplugDisposition_NoReturnOnSuccess(answer) ==
    IF answer.ok THEN "retry"
    ELSE IF Len(answer.details) > 0 /\ answer.details[1] = DETACH_REJECTED
         THEN "retry"
    ELSE IF Len(answer.details) > 0 /\ answer.details[1] = ALREADY_DETACHED
         THEN "return"
    ELSE "return"

\* Variant: e.details[0] is read without the length test (IndexError on an
\* empty list).
UnplugDisposition_NoLenCheck(answer) ==
    IF answer.ok THEN "return"
    ELSE IF Len(answer.details) = 0 THEN "raise"
    ELSE IF answer.details[1] = DETACH_REJECTED THEN "retry"
    ELSE IF answer.details[1] = ALREADY_DETACHED THEN "return"
    ELSE "return"

\* vbd_unplug_with_retry: what the loop does with the answer of one attempt.
UnplugDisposition(answer) ==
    IF answer.ok THEN "return"
    ELSE IF Len(answer.details) > 0 /\ answer.details[1] = DETACH_REJECTED
         THEN "retry"
    ELSE IF Len(answer.details) > 0 /\ answer.details[1] = ALREADY_DETACHED
         THEN "return"
    ELSE "return"

\* Variant: an attempt ceiling; the loop gives up after the second attempt.
VBDUnplug_Ceiling(c) ==
    /\ calls[c].pc = "unplug"
    /\ LET r == calls[c].vbd_ref IN
       \E answer \in HypUnplugAnswers(vbds[r].state) :
         LET d == IF vbds[r].unplugs >= 1 THEN "return"
                  ELSE UnplugDisposition(answer) IN
         /\ vbds' = [vbds EXCEPT
                       ![r].unplugs = Sat(@),
                       ![r].rejected = IF DetachRejected(answer)
                                       THEN Sat(@) ELSE @,
                       ![r].state = IF answer.ok THEN "detached" ELSE @]
         /\ calls' = [calls EXCEPT
                       ![c].last = <<answer>>,
                       ![c].pc = IF d = "retry" THEN "sleep" ELSE "destroy"]
    /\ UNCHANGED <<should_remap, co, parents, fetchVars>>

\* finally: vbd_unplug_with_retry, one pass of the while loop.  The function
\* returns (on to VBD.destroy) or sleeps and retries; an error escaping it
\* would leave the finally clause at once and replace the pending outcome.
VBDUnplug(c) ==
    /\ calls[c].pc = "unplug"
    /\ LET r == calls[c].vbd_ref IN
       \E answer \in HypUnplugAnswers(vbds[r].state) :
         LET d == UnplugDisposition(answer) IN
         /\ vbds' = [vbds EXCEPT
                       ![r].unplugs = Sat(@),
                       ![r].rejected = IF DetachRejected(answer)
                                       THEN Sat(@) ELSE @,
                       ![r].state = IF answer.ok THEN "detached" ELSE @]
         /\ calls' = [calls EXCEPT
                       ![c].last = <<answer>>,
                       ![c].outcome = IF d = "raise"
                                      THEN Raise("UnplugError") ELSE @,
                       ![c].pc = CASE d = "retry" -> "sleep"
                                   [] d = "return" -> "destroy"
                                   [] OTHER -> "done"]
    /\ UNCHANGED <<should_remap, co, parents, fetchVars>>

\* time.sleep(1) after DEVICE_DETACH_REJECTED, then the next attempt.
UnplugSleep(c) ==
    /\ calls[c].pc = "sleep"
    /\ calls' = [calls EXCEPT ![c].sleeps = Sat(@),
                              ![c].slept = IF calls[c].sleeps < MaxCount
                                           THEN @ + UnplugRetrySleep ELSE @,
                              ![c].pc = "unplug"]
    /\ UNCHANGED <<vbds, should_remap, co, parents, fetchVars>>

\* Variant: the failure is logged and raised again.
ignore_failure_Reraise(answer) ==
    IF answer.ok THEN Return("ref") ELSE Raise("XenAPI.Failure")

\* ignore_failure(func): the value of func, or None when it raised
\* XenAPI.Failure; never an error.
ignore_failure(answer) ==
    IF answer.ok THEN Return("ref") ELSE Return(None)

\* finally: ignore_failure(VBD.destroy, vbd_ref); the finally clause ends and
\* the pending result or error of the try block reaches the caller.
FinallyOutcome(pending, cleanup) ==
    IF cleanup.kind = "raise" THEN cleanup ELSE pending

\* Variant: the cleanup destroys every VBD of the VDI, not only the one
\* the call created.
VBDDestroy_EveryVbdOfVdi(c) ==
    /\ calls[c].pc = "destroy"
    /\ LET r == calls[c].vbd_ref IN
       \E answer \in HypDestroyAnswers(vbds[r].state) :
         /\ vbds' = [q \in VbdRefs |->
                       IF vbds[q].VDI = calls[c].vdi_ref
                       THEN [vbds[q] EXCEPT
                               !.destroys = @ + 1,
                               !.state = IF answer.ok THEN "destroyed"
                                         ELSE @]
                       ELSE vbds[q]]
         /\ calls' = [calls EXCEPT
                       ![c].destroy = <<answer>>,
                       ![c].outcome = FinallyOutcome(calls[c].pending,
                                                     ignore_failure(answer)),
                       ![c].pc = "done"]
    /\ UNCHANGED <<should_remap, co, parents, fetchVars>>

VBDDestroy(c) ==
    /\ calls[c].pc = "destroy"
    /\ LET r == calls[c].vbd_ref IN
       \E answer \in HypDestroyAnswers(vbds[r].state) :
         /\ vbds' = [vbds EXCEPT
                       ![r].destroys = @ + 1,
                       ![r].state = IF answer.ok THEN "destroyed" ELSE @]
         /\ calls' = [calls EXCEPT
                       ![c].destroy = <<answer>>,
                       ![c].outcome = FinallyOutcome(calls[c].pending,
                                                     ignore_failure(answer)),
                       ![c].pc = "done"]
    /\ UNCHANGED <<should_remap, co, parents, fetchVars>>

AttachStep(c) ==
    \/ VBDCreate(c)
    \/ VBDPlug(c)
    \/ VBDGetDevice(c)
    \/ WaitForDevice(c)
    \/ FCall(c)
    \/ FFinish(c)
    \/ VBDUnplug(c)
    \/ UnplugSleep(c)
    \/ VBDDestroy(c)

(* --------------------------- coalesce waiter ---------------------------- *)

ParentUuids == {"A", "B", None}

IdleCo ==
    [pc |-> "idle", max_attempts |-> 0, original_parent_uuid |-> None,
     counter |-> 0, scans |-> 0, reads |-> 0, parent_uuid |-> None,
     outcome |-> NoOutcome, raised_counter |-> 0]

\* The parent the n-th read of the VDI record observes; after the last
\* element of the sequence the parent stays what it was.
ParentAt(n) == parents[IF n < Len(parents) THEN n ELSE Len(parents)]

\* Variant: the ceiling test is off by one (>= for >).
PollEnter_OffByOne ==
    /\ co.pc = "poll"
    /\ LET counter == co.counter + 1 IN
       IF counter >= co.max_attempts
       THEN co' = [co EXCEPT !.counter = counter,
                             !.outcome = Raise("CoalesceAttemptsExceeded"),
                             !.raised_counter = counter,
                             !.pc = "done"]
       ELSE co' = [co EXCEPT !.counter = counter, !.pc = "scan"]
    /\ UNCHANGED <<calls, vbds, should_remap, parents, fetchVars>>

\* Variant: the ceiling is tested before the attempt is counted.
PollEnter_TestBeforeCount ==
    /\ co.pc = "poll"
    /\ IF co.counter > co.max_attempts
       THEN co' = [co EXCEPT !.outcome = Raise("CoalesceAttemptsExceeded"),
                             !.raised_counter = co.counter,
                             !.pc = "done"]
       ELSE co' = [co EXCEPT !.counter = @ + 1, !.pc = "scan"]
    /\ UNCHANGED <<calls, vbds, should_remap, parents, fetchVars>>

\* Variant: the counter is a plain local of _poll_vhds and starts from 0 in
\* every poll.
PollEnter_CounterNotKept ==
    /\ co.pc = "poll"
    /\ LET counter == 0 + 1 IN
       IF counter > co.max_attempts
       THEN co' = [co EXCEPT !.counter = counter,
                             !.outcome = Raise("CoalesceAttemptsExceeded"),
                             !.raised_counter = counter,
                             !.pc = "done"]
       ELSE co' = [co EXCEPT !.counter = counter, !.pc = "scan"]
    /\ UNCHANGED <<calls, vbds, should_remap, parents, fetchVars>>

\* _poll_vhds, entry: count the attempt and give up above the ceiling.  The
\* error ends the LoopingCall and is raised by loop.wait().
PollEnter ==
    /\ co.pc = "poll"
    /\ LET counter == co.counter + 1 IN
       IF counter > co.max_attempts
       THEN co' = [co EXCEPT !.counter = counter,
                             !.outcome = Raise("CoalesceAttemptsExceeded"),
                             !.raised_counter = counter,
                             !.pc = "done"]
       ELSE co' = [co EXCEPT !.counter = counter, !.pc = "scan"]
    /\ UNCHANGED <<calls, vbds, should_remap, parents, fetchVars>>

\* Variant: the poll goes to the read without a rescan.
ScanSR_NotIssued ==
    /\ co.pc = "scan"
    /\ co' = [co EXCEPT !.pc = "read"]
    /\ UNCHANGED <<calls, vbds, should_remap, parents, fetchVars>>

\* VMHelper.scan_sr: Async.SR.scan and the wait for the task.
ScanSR ==
    /\ co.pc = "scan"
    /\ co' = [co EXCEPT !.scans = Sat(@), !.pc = "read"]
    /\ UNCHANGED <<calls, vbds, should_remap, parents, fetchVars>>

\* Variant: the opposite polarity, waiting while the parent is unchanged.
KeepWaiting_WhileUnchanged(original_parent_uuid, parent_uuid) ==
    original_parent_uuid # None /\ parent_uuid = original_parent_uuid

\* Variant: the test whether original_parent_uuid is set is missing.
KeepWaiting_NoTestForUnset(original_parent_uuid, parent_uuid) ==
    parent_uuid # original_parent_uuid

\* Variant: the loop ends at the first parent read, whatever it is.
KeepWaiting_Never(original_parent_uuid, parent_uuid) ==
    FALSE

\* The test of _poll_vhds: TRUE to keep waiting, FALSE to break out.
KeepWaiting(original_parent_uuid, parent_uuid) ==
    original_parent_uuid # None /\ parent_uuid # original_parent_uuid

\* get_vhd_parent_uuid and the test: log and let the LoopingCall sleep, or
\* raise LoopingCallDone(parent_uuid), which loop.wait() returns.
ReadParent ==
    /\ co.pc = "read"
    /\ LET parent_uuid == ParentAt(co.reads + 1) IN
       IF KeepWaiting(co.original_parent_uuid, parent_uuid)
       THEN co' = [co EXCEPT !.reads = Sat(@),
                             !.parent_uuid = parent_uuid,
                             !.pc = "interval"]
       ELSE co' = [co EXCEPT !.reads = Sat(@),
                             !.parent_uuid = parent_uuid,
                             !.outcome = Return(parent_uuid),
                             !.pc = "done"]
    /\ UNCHANGED <<calls, vbds, should_remap, parents, fetchVars>>

\* LoopingCall: sleep for the poll interval, then call _poll_vhds again.
PollInterval ==
    /\ co.pc = "interval"
    /\ co' = [co EXCEPT !.pc = "poll"]
    /\ UNCHANGED <<calls, vbds, should_remap, parents, fetchVars>>

(* ----------------------- image ingestion pipeline ---------------------- *)

\* class ImageType: the numeric members and their string tags.
KERNEL == 0
RAMDISK == 1
DISK == 2
DISK_RAW == 3
DISK_VHD == 4

KERNEL_STR == "kernel"
RAMDISK_STR == "ramdisk"
DISK_STR == "os"
DISK_RAW_STR == "os_raw"
DISK_VHD_STR == "vhd"

ImageTypes == {KERNEL, RAMDISK, DISK, DISK_RAW, DISK_VHD}
ImageTypeStrings ==
    {KERNEL_STR, RAMDISK_STR, DISK_STR, DISK_RAW_STR, DISK_VHD_STR}

\* Variant: DISK is given the tag of DISK_RAW.
to_string_DiskAsRaw(image_type) ==
    IF image_type = KERNEL THEN Return(KERNEL_STR)
    ELSE IF image_type = RAMDISK THEN Return(RAMDISK_STR)
    ELSE IF image_type = DISK THEN Return(DISK_RAW_STR)
    ELSE IF image_type = DISK_RAW THEN Return(DISK_RAW_STR)
    ELSE IF image_type = DISK_VHD THEN Raise("AttributeError")
    ELSE Return(None)

\* ImageType.to_string.  The last branch reads ImageType.VHD_STR, which the
\* class does not define (AttributeError); no branch taken returns None.
to_string(image_type) ==
    IF image_type = KERNEL THEN Return(KERNEL_STR)
    ELSE IF image_type = RAMDISK THEN Return(RAMDISK_STR)
    ELSE IF image_type = DISK THEN Return(DISK_STR)
    ELSE IF image_type = DISK_RAW THEN Return(DISK_RAW_STR)
    ELSE IF image_type = DISK_VHD THEN Raise("AttributeError")
    ELSE Return(None)

\* ImageType.from_string.  Only the first test reads the parameter
\* image_type_str; the second reads image_type, a name that is not defined
\* (NameError), so no later branch is ever reached.
from_string(image_type_str) ==
    IF image_type_str = KERNEL_STR THEN Return(KERNEL)
    ELSE Raise("NameError")

\* The two conversions applied in both orders to an input member x and an
\* input string s.
IdleConv ==
    [x |-> KERNEL, s |-> KERNEL_STR, pcA |-> "idle", pcB |-> "idle",
     str |-> NoOutcome, back |-> NoOutcome,
     typ |-> NoOutcome, str_back |-> NoOutcome]

\* to_string(x)
ConvToString ==
    /\ conv.pcA = "to_string"
    /\ LET r == to_string(conv.x) IN
       conv' = [conv EXCEPT !.str = r,
                            !.pcA = IF r.kind = "return"
                                    THEN "from_string" ELSE "done"]
    /\ UNCHANGED <<calls, vbds, should_remap, co, parents, fetch, xen,
                 pv, snap>>

\* from_string(to_string(x))
ConvFromString ==
    /\ conv.pcA = "from_string"
    /\ conv' = [conv EXCEPT !.back = from_string(conv.str.val),
                            !.pcA = "done"]
    /\ UNCHANGED <<calls, vbds, should_remap, co, parents, fetch, xen,
                 pv, snap>>

\* from_string(s)
ConvParse ==
    /\ conv.pcB = "from_string"
    /\ LET r == from_string(conv.s) IN
       conv' = [conv EXCEPT !.typ = r,
                            !.pcB = IF r.kind = "return"
                                    THEN "to_string" ELSE "done"]
    /\ UNCHANGED <<calls, vbds, should_remap, co, parents, fetch, xen,
                 pv, snap>>

\* to_string(from_string(s))
ConvFormat ==
    /\ conv.pcB = "to_string"
    /\ conv' = [conv EXCEPT !.str_back = to_string(conv.typ.val),
                            !.pcB = "done"]
    /\ UNCHANGED <<calls, vbds, should_remap, co, parents, fetch, xen,
                 pv, snap>>

SECTOR_SIZE == 512
MBR_SIZE_SECTORS == 63
MBR_SIZE_BYTES == MBR_SIZE_SECTORS * SECTOR_SIZE

\* FLAGS.max_kernel_ramdisk_size
max_kernel_ramdisk_size == 16 * 1024 * 1024

\* Declared sizes (meta['size']) of the images fetched: not a multiple of the
\* sector size, 1 MiB, 10 MiB, the kernel/ramdisk maximum, and one byte more.
ImageSizes ==
    {1000, 1048576, 10 * 1024 * 1024,
     max_kernel_ramdisk_size, max_kernel_ramdisk_size + 1}

\* FLAGS.xenapi_image_service
ImageServices == {"glance", "objectstore"}

\* What the hypervisor and the plugins hand back.
VdiUuid == "vdi-uuid-1"
SwapUuid == "vdi-uuid-2"
KernelFile == "/boot/guest/kernel-1"

\* An ImageDescriptor: dict(vdi_type=..., vdi_uuid=..., file=...).
Descriptor(vdi_type, vdi_uuid, file) ==
    [vdi_type |-> vdi_type, vdi_uuid |-> vdi_uuid, file |-> file]

\* Outcome of a fetch: the returned list, or the raised error with the list
\* of descriptors appended to its args (empty when nothing was appended).
\* The shape says what kind of value was returned; every return statement
\* of the backends returns a list.
FetchReturn(list) ==
    [kind |-> "return", val |-> list, attached |-> <<>>, shape |-> "list"]
FetchRaise(e, attached) ==
    [kind |-> "raise", val |-> e, attached |-> attached, shape |-> "none"]
FetchNoOutcome ==
    [kind |-> "none", val |-> None, attached |-> <<>>, shape |-> "none"]

\* The class of each error, as an except clause matches it.  StorageError
\* (nova.virt.xenapi.volume_utils) is its own class, the one destroy_vdi
\* wraps a XenAPI.Failure into; ProcessExecutionError, raised by
\* utils.execute, is an IOError.
ErrorClass(e) ==
    CASE e \in {"CreateFailure", "PlugFailure", "GetDeviceFailure",
                "VDI.get_uuid Failure", "PluginFailure",
                "VDI.destroy Failure"} -> "XenAPI.Failure"
      [] e \in {"ProcessExecutionError", "IOError"} -> "IOError"
      [] OTHER -> e

\* except (cls.XenAPI.Failure, IOError, OSError)
Caught(e) == ErrorClass(e) \in {"XenAPI.Failure", "IOError", "OSError"}

IdleFetch ==
    [pc |-> "idle", service |-> "glance", image_type |-> KERNEL, size |-> 0,
     virtual_size |-> 0, vdi_size |-> 0, vdi_uuid |-> <<>>,
     filename |-> None, spc |-> "idle", offset |-> 0,
     vdis |-> <<>>, outcome |-> FetchNoOutcome,
     too_large |-> <<>>]

\* The VDI the fetch creates, the calls made on the hypervisor and its
\* plugins (in order), and the block device in dom0.
IdleXen ==
    [vdi |-> [state |-> "none", size |-> 0, label |-> None],
     log |-> <<>>,
     vhd_result |-> <<>>,
     device |-> [partitions |-> <<>>, parted |-> 0, chowned |-> FALSE,
                 seek |-> <<>>, copied |-> FALSE]]

Log(event) == [xen EXCEPT !.log = Append(@, event)]

\* Variant: with glance every image type goes to the streaming backend.
FetchDispatch_AlwaysStreaming ==
    /\ fetch.pc = "fetch_image"
    /\ fetch' = [fetch EXCEPT
                   !.pc = IF fetch.service = "glance"
                          THEN "disk_entry"
                          ELSE "objectstore_call"]
    /\ UNCHANGED <<calls, vbds, should_remap, co, parents, xen, conv,
                 pv, snap>>

\* fetch_image and _fetch_image_glance: the backend is chosen by the
\* image-service flag and, for glance, by the image type.
FetchDispatch ==
    /\ fetch.pc = "fetch_image"
    /\ fetch' = [fetch EXCEPT
                   !.pc = IF fetch.service = "glance"
                          THEN IF fetch.image_type = DISK_VHD
                               THEN "vhd_plugin" ELSE "disk_entry"
                          ELSE "objectstore_call"]
    /\ UNCHANGED <<calls, vbds, should_remap, co, parents, xen, conv,
                 pv, snap>>

\* Variant: the MBR is reserved for every image type.
VdiSize_AlwaysMBR(image_type, virtual_size) ==
    virtual_size + MBR_SIZE_BYTES

\* The size of the VDI to create: room for the MBR for DISK only.
VdiSize(image_type, virtual_size) ==
    IF image_type = DISK THEN virtual_size + MBR_SIZE_BYTES
    ELSE virtual_size

\* Variant: the size limit is applied to kernels only.
TooLarge_KernelOnly(image_type, vdi_size) ==
    /\ image_type # DISK
    /\ image_type = KERNEL
    /\ vdi_size > max_kernel_ramdisk_size

\* The elif of the size test: a kernel or ramdisk above the maximum.
TooLarge(image_type, vdi_size) ==
    /\ image_type # DISK
    /\ image_type \in {KERNEL, RAMDISK}
    /\ vdi_size > max_kernel_ramdisk_size

\* _fetch_image_glance_disk up to the size test: log the image type, read
\* the declared size, compute the VDI size, refuse a kernel or ramdisk that
\* is too large.
FetchDiskEntry ==
    /\ fetch.pc = "disk_entry"
    /\ LET virtual_size == fetch.size
           vdi_size == VdiSize(fetch.image_type, virtual_size) IN
       IF to_string(fetch.image_type).kind = "raise"
       THEN fetch' = [fetch EXCEPT
                        !.outcome = FetchRaise(to_string(fetch.image_type).val,
                                               <<>>),
                        !.pc = "done"]
       ELSE IF TooLarge(fetch.image_type, vdi_size)
       THEN fetch' = [fetch EXCEPT
                        !.virtual_size = virtual_size,
                        !.vdi_size = vdi_size,
                        !.too_large = <<vdi_size, max_kernel_ramdisk_size>>,
                        !.outcome = FetchRaise("ImageTooLarge", <<>>),
                        !.pc = "done"]
       ELSE fetch' = [fetch EXCEPT
                        !.virtual_size = virtual_size,
                        !.vdi_size = vdi_size,
                        !.pc = "create_vdi"]
    /\ UNCHANGED <<calls, vbds, should_remap, co, parents, xen, conv,
                 pv, snap>>

\* create_vdi: VDI.create with the computed size, before the try block.
FetchCreateVDI ==
    /\ fetch.pc = "create_vdi"
    /\ \/ /\ xen' = [Log("VDI.create") EXCEPT
                       !.vdi = [state |-> "exists", size |-> fetch.vdi_size,
                                label |-> "Glance image"]]
          /\ fetch' = [fetch EXCEPT !.pc = "get_uuid"]
       \/ /\ xen' = Log("VDI.create")
          /\ fetch' = [fetch EXCEPT
                         !.outcome = FetchRaise("VDI.create Failure", <<>>),
                         !.pc = "done"]
    /\ UNCHANGED <<calls, vbds, should_remap, co, parents, conv, pv, snap>>

\* The except clause of _fetch_image_glance_disk: an error of a class it
\* names is raised again with the descriptor appended to its args; building
\* the descriptor reads vdi_uuid, which is unbound when VDI.get_uuid failed.
\* Any other error passes through untouched.
Handler(e, image_type, vdi_uuid, filename) ==
    IF ~Caught(e) THEN FetchRaise(e, <<>>)
    ELSE IF to_string(image_type).kind = "raise"
         THEN FetchRaise(to_string(image_type).val, <<>>)
    ELSE IF vdi_uuid = <<>> THEN FetchRaise("UnboundLocalError", <<>>)
    ELSE FetchRaise(e, <<Descriptor(to_string(image_type).val,
                                    vdi_uuid[1], filename)>>)

\* try: filename = None; vdi_uuid = VDI.get_uuid(vdi_ref); then
\* with_vdi_attached_here is entered.
FetchGetUuid ==
    /\ fetch.pc = "get_uuid"
    /\ \/ /\ fetch' = [fetch EXCEPT !.vdi_uuid = <<VdiUuid>>,
                                    !.spc = "partition",
                                    !.pc = "attach"]
          /\ calls' = [calls EXCEPT !["c1"].pc = "create"]
       \/ /\ fetch' = [fetch EXCEPT
                         !.outcome = Handler("VDI.get_uuid Failure",
                                             fetch.image_type, fetch.vdi_uuid,
                                             fetch.filename),
                         !.pc = "done"]
          /\ calls' = calls
    /\ xen' = Log("VDI.get_uuid")
    /\ UNCHANGED <<vbds, should_remap, co, parents, conv, pv, snap>>

\* Variant: the last sector is one too far.
write_partition_NoMinusOne(virtual_size) ==
    <<MBR_SIZE_SECTORS, MBR_SIZE_SECTORS + (virtual_size \div SECTOR_SIZE)>>

\* _write_partition: the first and last sector of the one primary partition.
write_partition(virtual_size) ==
    <<MBR_SIZE_SECTORS,
      MBR_SIZE_SECTORS + (virtual_size \div SECTOR_SIZE) - 1>>

\* The caller operation of the fetch ends: with_vdi_attached_here goes on
\* to its finally block with f's result or error pending.
StreamEnd(outcome) ==
    calls' = [calls EXCEPT
                !["c1"].f = IF outcome.kind = "return" THEN "returned"
                            ELSE "raised",
                !["c1"].pending = outcome,
                !["c1"].pc = "unplug"]

\* _stream_disk, first step: for DISK the offset is MBR_SIZE_BYTES and the
\* partition table is written (parted mklabel, parted mkpart), which may
\* fail; for any other type the offset stays 0.
StreamPartition ==
    /\ calls["c1"].pc = "f_run"
    /\ fetch.spc = "partition"
    /\ IF fetch.image_type = DISK
       THEN \/ /\ xen' = [xen EXCEPT
                            !.device.partitions =
                               Append(@, write_partition(fetch.virtual_size)),
                            !.device.parted = 2]
               /\ fetch' = [fetch EXCEPT !.offset = MBR_SIZE_BYTES,
                                         !.spc = "chown"]
               /\ calls' = calls
            \/ /\ \E n \in {1, 2} :
                    xen' = [xen EXCEPT !.device.parted = n]
               /\ fetch' = [fetch EXCEPT !.offset = MBR_SIZE_BYTES,
                                         !.spc = "failed"]
               /\ StreamEnd(Raise("ProcessExecutionError"))
       ELSE /\ fetch' = [fetch EXCEPT !.offset = 0, !.spc = "chown"]
            /\ UNCHANGED <<xen, calls>>
    /\ UNCHANGED <<vbds, should_remap, co, parents, conv, pv, snap>>

\* Variant: a failed chown is ignored and the copy goes ahead.
StreamChown_FailureIgnored ==
    /\ calls["c1"].pc = "f_run"
    /\ fetch.spc = "chown"
    /\ \/ /\ xen' = [xen EXCEPT !.device.chowned = TRUE]
          /\ fetch' = [fetch EXCEPT !.spc = "copy"]
          /\ calls' = calls
       \/ /\ xen' = xen
          /\ fetch' = [fetch EXCEPT !.spc = "copy"]
          /\ calls' = calls
    /\ UNCHANGED <<vbds, should_remap, co, parents, conv, pv, snap>>

\* _stream_disk: chown of the device node.
StreamChown ==
    /\ calls["c1"].pc = "f_run"
    /\ fetch.spc = "chown"
    /\ \/ /\ xen' = [xen EXCEPT !.device.chowned = TRUE]
          /\ fetch' = [fetch EXCEPT !.spc = "copy"]
          /\ calls' = calls
       \/ /\ xen' = xen
          /\ fetch' = [fetch EXCEPT !.spc = "failed"]
          /\ StreamEnd(Raise("ProcessExecutionError"))
    /\ UNCHANGED <<vbds, should_remap, co, parents, conv, pv, snap>>

\* _stream_disk: open the device, seek to the offset, write the chunks.
StreamCopy ==
    /\ calls["c1"].pc = "f_run"
    /\ fetch.spc = "copy"
    /\ \/ /\ xen' = [xen EXCEPT !.device.seek = <<fetch.offset>>,
                                !.device.copied = TRUE]
          /\ fetch' = [fetch EXCEPT !.spc = "done"]
          /\ StreamEnd(Return(None))
       \/ /\ \E sought \in {<<>>, <<fetch.offset>>} :
               xen' = [xen EXCEPT !.device.seek = sought]
          /\ fetch' = [fetch EXCEPT !.spc = "failed"]
          /\ StreamEnd(Raise("IOError"))
    /\ UNCHANGED <<vbds, should_remap, co, parents, conv, pv, snap>>

\* Variant: the kernel descriptor keeps the uuid of the temporary VDI.
KernelDescriptor_KeepsUuid(image_type, vdi_uuid, filename) ==
    Descriptor(to_string(image_type).val, vdi_uuid, filename)

\* The descriptor returned for a kernel or ramdisk.
KernelDescriptor(image_type, vdi_uuid, filename) ==
    Descriptor(to_string(image_type).val, None, filename)

\* The descriptor returned for a disk.
DiskDescriptor(image_type, vdi_uuid) ==
    Descriptor(to_string(image_type).val, vdi_uuid, None)

\* with_vdi_attached_here has ended.  Its error goes to the except clause;
\* after its return a kernel or ramdisk goes on to the copy-out, and a disk
\* is returned as a descriptor.
FetchAfterAttach ==
    /\ fetch.pc = "attach"
    /\ calls["c1"].pc = "done"
    /\ LET out == calls["c1"].outcome IN
       IF out.kind = "raise"
       THEN fetch' = [fetch EXCEPT
                        !.outcome = Handler(out.val, fetch.image_type,
                                            fetch.vdi_uuid, fetch.filename),
                        !.pc = "done"]
       ELSE IF fetch.image_type \in {KERNEL, RAMDISK}
       THEN fetch' = [fetch EXCEPT !.pc = "copy_kernel_vdi"]
       ELSE fetch' = [fetch EXCEPT
                        !.outcome =
                           FetchReturn(<<DiskDescriptor(fetch.image_type,
                                                        fetch.vdi_uuid[1])>>),
                        !.pc = "done"]
    /\ UNCHANGED <<calls, vbds, should_remap, co, parents, xen, conv,
                 pv, snap>>

\* Variant: the file descriptor is returned right after the copy-out, and
\* the temporary VDI is left in place.
FetchCopyKernel_NoDestroy ==
    /\ fetch.pc = "copy_kernel_vdi"
    /\ xen' = Log("plugin glance.copy_kernel_vdi")
    /\ \/ fetch' = [fetch EXCEPT
                      !.filename = KernelFile,
                      !.outcome =
                         FetchReturn(<<Descriptor(
                                         to_string(fetch.image_type).val,
                                         None, KernelFile)>>),
                      !.pc = "done"]
       \/ fetch' = [fetch EXCEPT
                      !.outcome = Handler("PluginFailure", fetch.image_type,
                                          fetch.vdi_uuid, fetch.filename),
                      !.pc = "done"]
    /\ UNCHANGED <<calls, vbds, should_remap, co, parents, conv, pv, snap>>

\* The copy-out: plugin 'glance', function 'copy_kernel_vdi', waited for.
FetchCopyKernel ==
    /\ fetch.pc = "copy_kernel_vdi"
    /\ xen' = Log("plugin glance.copy_kernel_vdi")
    /\ \/ fetch' = [fetch EXCEPT !.filename = KernelFile,
                                 !.pc = "destroy_vdi"]
       \/ fetch' = [fetch EXCEPT
                      !.outcome = Handler("PluginFailure", fetch.image_type,
                                          fetch.vdi_uuid, fetch.filename),
                      !.pc = "done"]
    /\ UNCHANGED <<calls, vbds, should_remap, co, parents, conv, pv, snap>>

\* VDI.destroy of the temporary VDI, then the return of the file descriptor.
FetchDestroyVDI ==
    /\ fetch.pc = "destroy_vdi"
    /\ \/ /\ xen' = [Log("VDI.destroy") EXCEPT !.vdi.state = "destroyed"]
          /\ fetch' = [fetch EXCEPT
                         !.outcome =
                            FetchReturn(<<KernelDescriptor(fetch.image_type,
                                                           fetch.vdi_uuid[1],
                                                           fetch.filename)>>),
                         !.pc = "done"]
       \/ /\ xen' = Log("VDI.destroy")
          /\ fetch' = [fetch EXCEPT
                         !.outcome = Handler("VDI.destroy Failure",
                                             fetch.image_type, fetch.vdi_uuid,
                                             fetch.filename),
                         !.pc = "done"]
    /\ UNCHANGED <<calls, vbds, should_remap, co, parents, conv, pv, snap>>

\* _fetch_image_objectstore: the plugin function and its arguments.
ObjectstoreFn(image_type) ==
    IF image_type \in {KERNEL, RAMDISK} THEN "get_kernel" ELSE "get_vdi"

ObjectstoreArgs(image_type) ==
    [add_partition |-> image_type \notin {KERNEL, RAMDISK},
     raw |-> image_type \notin {KERNEL, RAMDISK} /\ image_type = DISK_RAW]

\* The plugin call is issued.
FetchObjectstoreCall ==
    /\ fetch.pc = "objectstore_call"
    /\ xen' = Log("plugin objectstore." \o ObjectstoreFn(fetch.image_type))
    /\ fetch' = [fetch EXCEPT !.pc = "objectstore_wait"]
    /\ UNCHANGED <<calls, vbds, should_remap, co, parents, conv, pv, snap>>

\* wait_for_task gives the file name or the VDI uuid, and the one
\* descriptor is returned; a failed task raises.
FetchObjectstoreWait ==
    /\ fetch.pc = "objectstore_wait"
    /\ \/ LET kernel == fetch.image_type \in {KERNEL, RAMDISK}
              filename == IF kernel THEN KernelFile ELSE None
              vdi_uuid == IF kernel THEN None ELSE VdiUuid IN
          fetch' = [fetch EXCEPT
                      !.filename = filename,
                      !.vdi_uuid = IF kernel THEN <<>> ELSE <<VdiUuid>>,
                      !.outcome =
                         IF to_string(fetch.image_type).kind = "raise"
                         THEN FetchRaise(to_string(fetch.image_type).val, <<>>)
                         ELSE FetchReturn(
                                <<Descriptor(to_string(fetch.image_type).val,
                                             vdi_uuid, filename)>>),
                      !.pc = "done"]
       \/ fetch' = [fetch EXCEPT
                      !.outcome = FetchRaise("PluginFailure", <<>>),
                      !.pc = "done"]
    /\ UNCHANGED <<calls, vbds, should_remap, co, parents, xen, conv,
                 pv, snap>>

\* What the download_vhd plugin can answer: the list of the VDIs it made.
VhdResults ==
    {<<>>,
     <<[vdi_type |-> "os", vdi_uuid |-> VdiUuid]>>,
     <<[vdi_type |-> "os", vdi_uuid |-> VdiUuid],
       [vdi_type |-> "swap", vdi_uuid |-> SwapUuid]>>,
     <<[vdi_type |-> "swap", vdi_uuid |-> SwapUuid],
       [vdi_type |-> "os", vdi_uuid |-> VdiUuid]>>}

\* _fetch_image_glance_vhd: plugin 'glance', function 'download_vhd',
\* waited for; its answer is the list of VDIs.
FetchVhdPlugin ==
    /\ fetch.pc = "vhd_plugin"
    /\ \/ \E result \in VhdResults :
            /\ xen' = [Log("plugin glance.download_vhd") EXCEPT
                         !.vhd_result = <<result>>]
            /\ fetch' = [fetch EXCEPT !.vdis = result, !.pc = "vhd_scan"]
       \/ /\ xen' = Log("plugin glance.download_vhd")
          /\ fetch' = [fetch EXCEPT
                         !.outcome = FetchRaise("PluginFailure", <<>>),
                         !.pc = "done"]
    /\ UNCHANGED <<calls, vbds, should_remap, co, parents, conv, pv, snap>>

\* scan_sr after the download.
FetchVhdScan ==
    /\ fetch.pc = "vhd_scan"
    /\ xen' = Log("SR.scan")
    /\ \/ fetch' = [fetch EXCEPT !.pc = "vhd_label"]
       \/ fetch' = [fetch EXCEPT
                      !.outcome = FetchRaise("SR.scan Failure", <<>>),
                      !.pc = "done"]
    /\ UNCHANGED <<calls, vbds, should_remap, co, parents, conv, pv, snap>>

\* Variant: only the VDI that got the label is returned.
FetchVhdLabel_ReturnsFirst ==
    /\ fetch.pc = "vhd_label"
    /\ IF fetch.vdis = <<>>
       THEN /\ fetch' = [fetch EXCEPT
                           !.outcome = FetchRaise("IndexError", <<>>),
                           !.pc = "done"]
            /\ xen' = xen
       ELSE /\ xen' = [Log("VDI.set_name_label " \o fetch.vdis[1].vdi_uuid)
                         EXCEPT !.vdi.label = "Glance image"]
            /\ fetch' = [fetch EXCEPT
                           !.vdi_uuid = <<fetch.vdis[1].vdi_uuid>>,
                           !.outcome = FetchReturn(<<fetch.vdis[1]>>),
                           !.pc = "done"]
    /\ UNCHANGED <<calls, vbds, should_remap, co, parents, conv, pv, snap>>

\* The first VDI of the list gets the name label; the list is returned.
FetchVhdLabel ==
    /\ fetch.pc = "vhd_label"
    /\ IF fetch.vdis = <<>>
       THEN /\ fetch' = [fetch EXCEPT
                           !.outcome = FetchRaise("IndexError", <<>>),
                           !.pc = "done"]
            /\ xen' = xen
       ELSE /\ xen' = [Log("VDI.set_name_label " \o fetch.vdis[1].vdi_uuid)
                         EXCEPT !.vdi.label = "Glance image"]
            /\ fetch' = [fetch EXCEPT
                           !.vdi_uuid = <<fetch.vdis[1].vdi_uuid>>,
                           !.outcome = FetchReturn(fetch.vdis),
                           !.pc = "done"]
    /\ UNCHANGED <<calls, vbds, should_remap, co, parents, conv, pv, snap>>

(* ------------------- paravirtualization decision ------------------------ *)

\* A disk_image_type that is none of the five members of ImageType.
UnknownImageType == DISK_VHD + 1

\* The os_type of the instance.
OsTypes == {"windows", "linux", None}

\* What the is_vdi_pv plugin of objectstore can answer.
PvStrings == {"true", "True", "false", "unknown"}

\* str.lower() on the answers of the plugin.
Lower(str) == IF str = "True" THEN "true" ELSE str

IdlePv ==
    [pc |-> "idle", service |-> "glance", disk_image_type |-> KERNEL,
     os_type |-> None, probes |-> 0, plugin_calls |-> 0,
     outcome |-> NoOutcome]

\* determine_is_pv: the decision is made by the image service.
PvDispatch ==
    /\ pv.pc = "determine_is_pv"
    /\ pv' = [pv EXCEPT !.pc = IF pv.service = "glance"
                               THEN "glance" ELSE "objectstore"]
    /\ UNCHANGED <<calls, vbds, should_remap, co, parents, fetch, xen, conv,
                   snap>>

\* _determine_is_pv_objectstore: the is_vdi_pv plugin is asked and its
\* answer, lower-cased, gives True, False or None.
PvObjectstore ==
    /\ pv.pc = "objectstore"
    /\ \/ \E pv_str \in PvStrings :
            pv' = [pv EXCEPT
                     !.plugin_calls = @ + 1,
                     !.outcome = IF Lower(pv_str) = "true"
                                 THEN Return("True")
                                 ELSE IF Lower(pv_str) = "false"
                                 THEN Return("False")
                                 ELSE Return(None),
                     !.pc = "done"]
       \/ pv' = [pv EXCEPT !.plugin_calls = @ + 1,
                           !.outcome = Raise("PluginFailure"),
                           !.pc = "done"]
    /\ UNCHANGED <<calls, vbds, should_remap, co, parents, fetch, xen, conv,
                   snap>>

\* Variant: DISK is probed and DISK_RAW is assumed paravirtualized.
determine_is_pv_glance_Swapped(disk_image_type, os_type) ==
    IF disk_image_type = DISK_VHD
    THEN IF os_type = "windows" THEN Return("False") ELSE Return("True")
    ELSE IF disk_image_type = DISK THEN [kind |-> "attach", val |-> None]
    ELSE IF disk_image_type = DISK_RAW THEN Return("True")
    ELSE Raise("UnknownImageFormat")

\* Variant: a VHD image is paravirtualized whatever the os_type.
determine_is_pv_glance_VhdAlwaysPv(disk_image_type, os_type) ==
    IF disk_image_type = DISK_VHD
    THEN Return("True")
    ELSE IF disk_image_type = DISK_RAW THEN [kind |-> "attach", val |-> None]
    ELSE IF disk_image_type = DISK THEN Return("True")
    ELSE Raise("UnknownImageFormat")

\* _determine_is_pv_glance: the branch taken for each image type; "attach"
\* stands for with_vdi_attached_here(session, vdi_ref, True, _is_vdi_pv).
determine_is_pv_glance(disk_image_type, os_type) ==
    IF disk_image_type = DISK_VHD
    THEN IF os_type = "windows" THEN Return("False") ELSE Return("True")
    ELSE IF disk_image_type = DISK_RAW THEN [kind |-> "attach", val |-> None]
    ELSE IF disk_image_type = DISK THEN Return("True")
    ELSE Raise("UnknownImageFormat")

\* The branch is taken: the result is there at once, or the scoped
\* attachment is entered.
PvGlance ==
    /\ pv.pc = "glance"
    /\ LET d == determine_is_pv_glance(pv.disk_image_type, pv.os_type) IN
       IF d.kind = "attach"
       THEN /\ pv' = [pv EXCEPT !.pc = "attach"]
            /\ calls' = [calls EXCEPT !["c1"].pc = "create"]
       ELSE /\ pv' = [pv EXCEPT !.outcome = d, !.pc = "done"]
            /\ calls' = calls
    /\ UNCHANGED <<vbds, should_remap, co, parents, fetch, xen, conv, snap>>

\* _is_vdi_pv, the caller operation of that attachment: pygrub is run on
\* the device and True is returned when its output names a Xen kernel,
\* False when it names none; os.popen may fail.
PvProbe ==
    /\ pv.pc = "attach"
    /\ calls["c1"].pc = "f_run"
    /\ pv' = [pv EXCEPT !.probes = @ + 1]
    /\ \/ \E found \in BOOLEAN :
            StreamEnd(Return(IF found THEN "True" ELSE "False"))
       \/ StreamEnd(Raise("OSError"))
    /\ UNCHANGED <<vbds, should_remap, co, parents, fetch, xen, conv, snap>>

\* with_vdi_attached_here has ended: its value is is_pv, its error is the
\* error of the decision.
PvAfterAttach ==
    /\ pv.pc = "attach"
    /\ calls["c1"].pc = "done"
    /\ pv' = [pv EXCEPT !.outcome = calls["c1"].outcome, !.pc = "done"]
    /\ UNCHANGED <<calls, vbds, should_remap, co, parents, fetch, xen, conv,
                   snap>>

\* One step of determine_is_pv, the steps of its scoped attachment included.
PvStep ==
    \/ PvDispatch
    \/ PvObjectstore
    \/ PvGlance
    \/ VBDCreate("c1")
    \/ VBDPlug("c1")
    \/ VBDGetDevice("c1")
    \/ WaitForDevice("c1")
    \/ FCall("c1")
    \/ PvProbe
    \/ VBDUnplug("c1")
    \/ UnplugSleep("c1")
    \/ VBDDestroy("c1")
    \/ PvAfterAttach

(* ------------------------------ snapshot -------------------------------- *)

\* What the hypervisor hands back to create_snapshot.
TemplateVmRef == "template-vm-1"
TemplateVdiUuid == "template-vdi-uuid-1"

IdleSnap ==
    [pc |-> "idle", max_attempts |-> 0, original_parent_uuid |-> None,
     template_vm_ref |-> None, template_vdi_uuid |-> None, log |-> <<>>,
     outcome |-> NoOutcome]

\* The value create_snapshot returns: template_vm_ref, template_vdi_uuids.
SnapReturn(template_vm_ref, image, snap_uuid) ==
    [kind |-> "return",
     val |-> [template_vm_ref |-> template_vm_ref,
              image |-> image, snap |-> snap_uuid]]

SnapLog(event) == [snap EXCEPT !.log = Append(@, event)]

\* get_vdi_for_vm_safely on the VM: its VDI and the SR of that VDI.
SnapGetVdi ==
    /\ snap.pc = "get_vdi"
    /\ \/ snap' = [SnapLog("get_vdi_for_vm") EXCEPT !.pc = "read_original"]
       \/ snap' = [SnapLog("get_vdi_for_vm") EXCEPT
                     !.outcome = Raise("NoVdiForVm"), !.pc = "done"]
    /\ UNCHANGED <<calls, vbds, should_remap, co, parents, fetch, xen, conv,
                   pv>>

\* original_parent_uuid = get_vhd_parent_uuid(session, vm_vdi_ref)
SnapReadOriginal ==
    /\ snap.pc = "read_original"
    /\ \E o \in ParentUuids :
         snap' = [SnapLog("read_original_parent") EXCEPT
                    !.original_parent_uuid = o, !.pc = "snapshot"]
    /\ UNCHANGED <<calls, vbds, should_remap, co, parents, fetch, xen, conv,
                   pv>>

\* Async.VM.snapshot and the wait for the task.
SnapSnapshot ==
    /\ snap.pc = "snapshot"
    /\ \/ snap' = [SnapLog("VM.snapshot") EXCEPT
                     !.template_vm_ref = TemplateVmRef,
                     !.pc = "template_vdi"]
       \/ snap' = [SnapLog("VM.snapshot") EXCEPT
                     !.outcome = Raise("SnapshotFailure"), !.pc = "done"]
    /\ UNCHANGED <<calls, vbds, should_remap, co, parents, fetch, xen, conv,
                   pv>>

\* get_vdi_for_vm_safely on the template: the uuid of the snapshot VDI.
SnapTemplateVdi ==
    /\ snap.pc = "template_vdi"
    /\ \/ snap' = [SnapLog("get_vdi_for_template") EXCEPT
                     !.template_vdi_uuid = TemplateVdiUuid,
                     !.pc = "start_wait"]
       \/ snap' = [SnapLog("get_vdi_for_template") EXCEPT
                     !.outcome = Raise("NoVdiForVm"), !.pc = "done"]
    /\ UNCHANGED <<calls, vbds, should_remap, co, parents, fetch, xen, conv,
                   pv>>

\* wait_for_vhd_coalesce is called with the parent read at the start.
SnapStartWait ==
    /\ snap.pc = "start_wait"
    /\ snap' = [SnapLog("wait_for_vhd_coalesce") EXCEPT !.pc = "wait"]
    /\ co' = [IdleCo EXCEPT
                !.pc = "poll",
                !.max_attempts = snap.max_attempts,
                !.original_parent_uuid = snap.original_parent_uuid]
    /\ UNCHANGED <<calls, vbds, should_remap, parents, fetch, xen, conv, pv>>

\* Variant: a failed wait is swallowed and the references are returned.
SnapFinish_WaitFailureSwallowed ==
    /\ snap.pc = "wait"
    /\ co.pc = "done"
    /\ snap' = [SnapLog("return") EXCEPT
                  !.outcome = SnapReturn(snap.template_vm_ref,
                                         co.parent_uuid,
                                         snap.template_vdi_uuid),
                  !.pc = "done"]
    /\ UNCHANGED <<calls, vbds, should_remap, co, parents, fetch, xen, conv,
                   pv>>

\* The wait has ended: its value is reported as 'image' next to the uuid of
\* the snapshot VDI; its error is the error of create_snapshot.
SnapFinish ==
    /\ snap.pc = "wait"
    /\ co.pc = "done"
    /\ snap' = IF co.outcome.kind = "raise"
               THEN [SnapLog("raise") EXCEPT
                       !.outcome = co.outcome, !.pc = "done"]
               ELSE [SnapLog("return") EXCEPT
                       !.outcome = SnapReturn(snap.template_vm_ref,
                                              co.outcome.val,
                                              snap.template_vdi_uuid),
                       !.pc = "done"]
    /\ UNCHANGED <<calls, vbds, should_remap, co, parents, fetch, xen, conv,
                   pv>>

\* One step of create_snapshot, the polls of its coalesce wait included.
SnapStep ==
    \/ SnapGetVdi
    \/ SnapReadOriginal
    \/ SnapSnapshot
    \/ SnapTemplateVdi
    \/ SnapStartWait
    \/ PollEnter
    \/ ScanSR
    \/ ReadParent
    \/ PollInterval
    \/ SnapFinish

\* One step of a fetch: its own steps, and the steps of the scoped
\* attachment it makes, whose caller operation is _stream_disk.
FetchStep ==
    \/ FetchDispatch
    \/ FetchDiskEntry
    \/ FetchCreateVDI
    \/ FetchGetUuid
    \/ VBDCreate("c1")
    \/ VBDPlug("c1")
    \/ VBDGetDevice("c1")
    \/ WaitForDevice("c1")
    \/ FCall("c1")
    \/ StreamPartition
    \/ StreamChown
    \/ StreamCopy
    \/ VBDUnplug("c1")
    \/ UnplugSleep("c1")
    \/ VBDDestroy("c1")
    \/ FetchAfterAttach
    \/ FetchCopyKernel
    \/ FetchDestroyVDI
    \/ FetchObjectstoreCall
    \/ FetchObjectstoreWait
    \/ FetchVhdPlugin
    \/ FetchVhdScan
    \/ FetchVhdLabel

(* --------------------------- specifications ----------------------------- *)

\* One invocation of with_vdi_attached_here.
InitAttach ==
    /\ calls = [c \in Calls |->
                  IF c = "c1" THEN [IdleCall EXCEPT !.pc = "create"]
                  ELSE IdleCall]
    /\ vbds = [r \in VbdRefs |-> NoVbd]
    /\ should_remap \in BOOLEAN
    /\ co = IdleCo
    /\ parents = <<None>>
    /\ fetch = IdleFetch
    /\ xen = IdleXen
    /\ pv = IdlePv
    /\ snap = IdleSnap
    /\ conv = IdleConv

NextAttach == \E c \in Calls : AttachStep(c)

\* Two calls of with_vdi_attached_here on the same VDI, running in two
\* threads at once.
InitConcurrentAttach ==
    /\ calls = [c \in Calls |-> [IdleCall EXCEPT !.pc = "create"]]
    /\ vbds = [r \in VbdRefs |-> NoVbd]
    /\ should_remap = FALSE
    /\ co = IdleCo
    /\ parents = <<None>>
    /\ fetch = IdleFetch
    /\ xen = IdleXen
    /\ pv = IdlePv
    /\ snap = IdleSnap
    /\ conv = IdleConv

SpecConcurrentAttach == InitConcurrentAttach /\ [][NextAttach]_vars

SpecAttach == InitAttach /\ [][NextAttach]_vars

\* The calling thread keeps running: every step of the code is eventually
\* taken.  What the hypervisor answers is not constrained.
FairSpecAttach == SpecAttach /\ WF_vars(NextAttach)

\* One invocation of wait_for_vhd_coalesce; loop.start(..., now=True) makes
\* the first poll at once.
InitCoalesce ==
    /\ calls = [c \in Calls |-> IdleCall]
    /\ vbds = [r \in VbdRefs |-> NoVbd]
    /\ should_remap = FALSE
    /\ \E m \in 1..MaxAttempts, o \in ParentUuids :
         co = [IdleCo EXCEPT !.pc = "poll", !.max_attempts = m,
                             !.original_parent_uuid = o]
    /\ parents \in [1..MaxPolls -> ParentUuids]
    /\ fetch = IdleFetch
    /\ xen = IdleXen
    /\ pv = IdlePv
    /\ snap = IdleSnap
    /\ conv = IdleConv

NextCoalesce == PollEnter \/ ScanSR \/ ReadParent \/ PollInterval

SpecCoalesce == InitCoalesce /\ [][NextCoalesce]_vars

\* The LoopingCall keeps running: every poll and every sleep ends.
FairSpecCoalesce == SpecCoalesce /\ WF_vars(NextCoalesce)

\* The ImageType conversions on every member and on every tag and one
\* string that is no tag.
InitFetch ==
    /\ calls = [c \in Calls |-> IdleCall]
    /\ vbds = [r \in VbdRefs |-> NoVbd]
    /\ should_remap \in BOOLEAN
    /\ co = IdleCo
    /\ parents = <<None>>
    /\ \E service \in ImageServices, image_type \in ImageTypes,
          size \in ImageSizes :
         fetch = [IdleFetch EXCEPT !.pc = "fetch_image",
                                   !.service = service,
                                   !.image_type = image_type,
                                   !.size = size]
    /\ xen = IdleXen
    /\ pv = IdlePv
    /\ snap = IdleSnap
    /\ conv = IdleConv

NextFetch == FetchStep

SpecFetch == InitFetch /\ [][NextFetch]_vars

InitPv ==
    /\ calls = [c \in Calls |-> IdleCall]
    /\ vbds = [r \in VbdRefs |-> NoVbd]
    /\ should_remap \in BOOLEAN
    /\ co = IdleCo
    /\ parents = <<None>>
    /\ fetch = IdleFetch
    /\ xen = IdleXen
    /\ conv = IdleConv
    /\ \E service \in ImageServices,
          disk_image_type \in ImageTypes \cup {UnknownImageType},
          os_type \in OsTypes :
         pv = [IdlePv EXCEPT !.pc = "determine_is_pv",
                             !.service = service,
                             !.disk_image_type = disk_image_type,
                             !.os_type = os_type]
    /\ snap = IdleSnap

NextPv == PvStep

SpecPv == InitPv /\ [][NextPv]_vars

InitSnapshot ==
    /\ calls = [c \in Calls |-> IdleCall]
    /\ vbds = [r \in VbdRefs |-> NoVbd]
    /\ should_remap = FALSE
    /\ co = IdleCo
    /\ parents \in [1..MaxPolls -> ParentUuids]
    /\ fetch = IdleFetch
    /\ xen = IdleXen
    /\ conv = IdleConv
    /\ pv = IdlePv
    /\ \E m \in 1..MaxAttempts :
         snap = [IdleSnap EXCEPT !.pc = "get_vdi", !.max_attempts = m]

NextSnapshot == SnapStep

SpecSnapshot == InitSnapshot /\ [][NextSnapshot]_vars

InitImageType ==
    /\ calls = [c \in Calls |-> IdleCall]
    /\ vbds = [r \in VbdRefs |-> NoVbd]
    /\ should_remap = FALSE
    /\ co = IdleCo
    /\ parents = <<None>>
    /\ fetch = IdleFetch
    /\ xen = IdleXen
    /\ pv = IdlePv
    /\ snap = IdleSnap
    /\ \E x \in ImageTypes, t \in ImageTypeStrings \cup {"bogus"} :
         conv = [IdleConv EXCEPT !.x = x, !.s = t,
                                 !.pcA = "to_string", !.pcB = "from_string"]

NextImageType == ConvToString \/ ConvFromString \/ ConvParse \/ ConvFormat

SpecImageType == InitImageType /\ [][NextImageType]_vars

(* ------------------- claims: scoped disk attachment --------------------- *)

Created(c) == calls[c].vbd_ref # None
Terminal(c) == calls[c].pc = "done"
VbdOf(c) == IF Created(c) THEN vbds[calls[c].vbd_ref] ELSE NoVbd
Answered(c) == calls[c].last # <<>>
LastUnplug(c) == calls[c].last[1]

\* C1: once the VBD record exists, every exit of with_vdi_attached_here
\* (f returned, f raised, device wait raised, plug raised) has run
\* vbd_unplug_with_retry on that VBD and has then called VBD.destroy on it;
\* destroy is never called before the unplug.
C1_CleanupOnEveryExit ==
    \A c \in Calls :
        /\ (Terminal(c) /\ Created(c)) =>
              /\ VbdOf(c).unplugs >= 1
              /\ Answered(c)
              /\ VbdOf(c).destroys >= 1
              /\ calls[c].destroy # <<>>
        /\ VbdOf(c).destroys >= 1 => VbdOf(c).unplugs >= 1

C1_Witness ==
    /\ Terminal("c1")
    /\ calls["c1"].pending = Raise("StorageError")
    /\ VbdOf("c1").unplugs >= 1
    /\ VbdOf("c1").destroys >= 1

\* C2: VBD.destroy is called exactly once for the VBD a scoped attachment
\* created, whether f returned or raised (and never more than once on the
\* way).
C2_DestroyExactlyOnce ==
    \A c \in Calls :
        /\ VbdOf(c).destroys <= 1
        /\ (Terminal(c) /\ Created(c)) => VbdOf(c).destroys = 1

C2_Witness ==
    /\ Terminal("c1")
    /\ calls["c1"].f = "raised"
    /\ ~LastUnplug("c1").ok
    /\ VbdOf("c1").destroys = 1

\* C3: within one call the events are ordered create < plug < f < unplug
\* attempts < destroy: a plug needs the created record and precedes f, f
\* starts only on a VBD whose plug succeeded, and no unplug or destroy is
\* issued while f runs or before the try block is left; destroy follows the
\* unplug attempts.
C3_StrictOrder ==
    [][\A c \in Calls :
        /\ VbdOf(c)'.plugs > VbdOf(c).plugs =>
              /\ VbdOf(c).creates = 1
              /\ calls[c].f = "none"
              /\ VbdOf(c).unplugs = 0 /\ VbdOf(c).destroys = 0
        /\ (calls[c]'.f = "running" /\ calls[c].f # "running") =>
              /\ calls[c].plug_ok /\ VbdOf(c).plugs = 1
              /\ VbdOf(c).state = "attached"
              /\ VbdOf(c).unplugs = 0 /\ VbdOf(c).destroys = 0
        /\ VbdOf(c)'.unplugs > VbdOf(c).unplugs =>
              /\ calls[c].f # "running"
              /\ calls[c].pending.kind # "none"
              /\ VbdOf(c).plugs = 1
              /\ VbdOf(c).destroys = 0
        /\ VbdOf(c)'.destroys > VbdOf(c).destroys =>
              /\ calls[c].f # "running"
              /\ VbdOf(c).unplugs >= 1
      ]_vars

C3_Witness ==
    /\ Terminal("c1")
    /\ calls["c1"].f = "raised"
    /\ VbdOf("c1").plugs = 1
    /\ VbdOf("c1").unplugs = 3
    /\ VbdOf("c1").destroys = 1

\* C4 as stated: in every terminal state the VBD the call created is
\* unplugged and its record destroyed, whatever the hypervisor answered to
\* unplug and destroy.
C4_NeverLeftPlugged ==
    \A c \in Calls :
        (Terminal(c) /\ Created(c)) => VbdOf(c).state = "destroyed"

\* An unplug failure that vbd_unplug_with_retry logs and ignores: any code
\* but DEVICE_DETACH_REJECTED and DEVICE_ALREADY_DETACHED, or no code.
IgnoredUnplugFailure(answer) ==
    /\ ~answer.ok
    /\ ~DetachRejected(answer)
    /\ ~(answer.details # <<>> /\ answer.details[1] = ALREADY_DETACHED)

\* C4 (amended): in every terminal state the VBD the call created is
\* unplugged unless the last VBD.unplug attempt failed with a code other than
\* DEVICE_DETACH_REJECTED and DEVICE_ALREADY_DETACHED (that failure is
\* ignored), and its record is destroyed unless VBD.destroy failed.
C4_LeftPluggedOnlyOnIgnoredFailure ==
    \A c \in Calls :
        (Terminal(c) /\ Created(c)) =>
            /\ VbdOf(c).state = "attached" =>
                  (Answered(c) /\ IgnoredUnplugFailure(LastUnplug(c)))
            /\ VbdOf(c).state # "destroyed" =>
                  (calls[c].destroy # <<>> /\ ~calls[c].destroy[1].ok)

C4_Witness ==
    /\ Terminal("c1")
    /\ calls["c1"].f = "returned"
    /\ VbdOf("c1").state = "attached"
    /\ LastUnplug("c1") = Failure(<<"INTERNAL_ERROR">>)

\* C5: the outcome of with_vdi_attached_here is the outcome of the try
\* block: the value f returned, or the error raised by plug, get_device, the
\* device wait or f; failures of VBD.unplug and VBD.destroy never replace it.
C5_PrimaryOutcome ==
    \A c \in Calls :
        (Terminal(c) /\ Created(c)) =>
            /\ calls[c].outcome = calls[c].pending
            /\ calls[c].f = "returned" =>
                  (calls[c].outcome.kind = "return"
                     /\ calls[c].outcome.val \in Values)
            /\ calls[c].f = "raised" =>
                  (calls[c].outcome.kind = "raise"
                     /\ calls[c].outcome.val \in FErrors)
            /\ (calls[c].f = "none" /\ ~calls[c].plug_ok) =>
                  calls[c].outcome = Raise("PlugFailure")
            /\ (calls[c].f = "none" /\ calls[c].plug_ok) =>
                  (calls[c].outcome.kind = "raise"
                     /\ calls[c].outcome.val
                           \in {"GetDeviceFailure", "StorageError"})

C5_Witness ==
    /\ Terminal("c1")
    /\ calls["c1"].outcome = Return("v2")
    /\ ~LastUnplug("c1").ok
    /\ ~calls["c1"].destroy[1].ok

\* C6: when the hypervisor has answered DEVICE_DETACH_REJECTED k times and
\* then succeeds, vbd_unplug_with_retry has made exactly k+1 attempts, has
\* slept exactly k times for one second each, and returns (on to
\* VBD.destroy).
C6_AttemptsAndSleeps ==
    \A c \in Calls :
        (Answered(c) /\ LastUnplug(c).ok /\ VbdOf(c).rejected < MaxCount) =>
            /\ VbdOf(c).unplugs = VbdOf(c).rejected + 1
            /\ calls[c].sleeps = VbdOf(c).rejected
            /\ calls[c].slept = VbdOf(c).rejected * UnplugRetrySleep
            /\ calls[c].pc \in {"destroy", "done"}
            /\ calls[c].outcome.val # "UnplugError"

C6_Witness ==
    /\ calls["c1"].pc = "destroy"
    /\ LastUnplug("c1").ok
    /\ VbdOf("c1").rejected = 2
    /\ VbdOf("c1").unplugs = 3
    /\ calls["c1"].sleeps = 2
    /\ calls["c1"].slept = 2

\* C7: after an attempt that failed with DEVICE_ALREADY_DETACHED or with any
\* other code but DEVICE_DETACH_REJECTED (an empty code list included),
\* vbd_unplug_with_retry has returned without raising and makes no further
\* attempt; the loop sleeps for a retry only after DEVICE_DETACH_REJECTED.
C7_OnlyRejectedRetries ==
    \A c \in Calls :
        /\ (Answered(c) /\ ~LastUnplug(c).ok
              /\ ~DetachRejected(LastUnplug(c))) =>
              /\ calls[c].pc \in {"destroy", "done"}
              /\ calls[c].outcome.val # "UnplugError"
        /\ calls[c].pc = "sleep" =>
              (Answered(c) /\ DetachRejected(LastUnplug(c)))

C7_Witness ==
    /\ calls["c1"].pc = "destroy"
    /\ LastUnplug("c1") = Failure(<<>>)
    /\ VbdOf("c1").unplugs = 1

\* C8: no attempt ceiling.  With the thread running, a call that created its
\* VBD returns if and only if some unplug attempt is answered with something
\* other than DEVICE_DETACH_REJECTED; while every attempt is rejected the
\* loop goes on and with_vdi_attached_here does not return, also after f
\* succeeded.
C8_ReturnsIffNotRejectedForever ==
    /\ <>(Terminal("c1") /\ Created("c1"))
          => <>(Answered("c1") /\ ~DetachRejected(LastUnplug("c1")))
    /\ <>(Answered("c1") /\ ~DetachRejected(LastUnplug("c1")))
          => <>(Terminal("c1") /\ Created("c1"))
    /\ (calls["c1"].pc = "sleep") ~> (calls["c1"].pc = "unplug")

C8_Witness ==
    /\ calls["c1"].pc = "sleep"
    /\ calls["c1"].f = "returned"
    /\ VbdOf("c1").rejected = MaxCount
    /\ VbdOf("c1").unplugs = MaxCount

(* ----------------------- claims: coalesce waiter ------------------------ *)

\* The backend shows the parents A, A, B to the first three reads.
ShowsAAB == parents[1] = "A" /\ parents[2] = "A" /\ parents[3] = "B"

\* C9 as stated: called with original parent A the waiter keeps polling
\* while the parent read is still A and returns the first parent that
\* differs from A; for the parents A, A, B it polls 3 times and returns B.
C9_ReturnsFirstChangedParent ==
    co.original_parent_uuid = "A" =>
        /\ co.pc = "interval" => co.parent_uuid = "A"
        /\ co.outcome.kind = "return" => co.outcome.val # "A"
        /\ (ShowsAAB /\ co.max_attempts = 3 /\ co.pc = "done") =>
              (co.reads = 3 /\ co.outcome = Return("B"))

\* C9 (amended): called with original parent A the waiter keeps polling
\* while the parent read differs from A and returns the first parent read
\* that equals A; for the parents A, A, B it polls once and returns A.
C9_ReturnsWhenParentIsOriginal ==
    co.original_parent_uuid = "A" =>
        /\ co.pc = "interval" => co.parent_uuid # "A"
        /\ co.outcome.kind = "return" =>
              /\ co.outcome.val = "A"
              /\ ParentAt(co.reads) = "A"
              /\ \A k \in 1..(co.reads - 1) : ParentAt(k) # "A"
        /\ (ShowsAAB /\ co.pc = "done") =>
              (co.reads = 1 /\ co.outcome = Return("A"))

C9_Witness ==
    /\ co.pc = "done"
    /\ co.original_parent_uuid = "A"
    /\ parents[1] = "B" /\ parents[2] = "A"
    /\ co.reads = 2
    /\ co.outcome = Return("A")

\* C10 as stated: with original parent A and max_attempts = 3, when every
\* poll reads parent A the waiter fails with the coalesce-timeout error after
\* exactly 3 polls and returns no parent.
C10_TimeoutWhenParentStaysOriginal ==
    (/\ co.pc = "done"
     /\ co.original_parent_uuid = "A"
     /\ co.max_attempts = 3
     /\ \A k \in DOMAIN parents : parents[k] = "A") =>
        /\ co.outcome = Raise("CoalesceAttemptsExceeded")
        /\ co.reads = 3

\* C10 (amended): with original parent A and max_attempts = 3, when every
\* poll reads a parent other than A the waiter fails with the
\* coalesce-timeout error after exactly 3 rescans and parent reads (raised by
\* the 4th call of _poll_vhds, counter 4 > 3) and returns no parent.
C10_TimeoutWhenParentNeverOriginal ==
    (/\ co.pc = "done"
     /\ co.original_parent_uuid = "A"
     /\ co.max_attempts = 3
     /\ \A k \in DOMAIN parents : parents[k] # "A") =>
        /\ co.outcome = Raise("CoalesceAttemptsExceeded")
        /\ co.scans = 3
        /\ co.reads = 3
        /\ co.counter = 4
        /\ co.raised_counter = 4

C10_Witness ==
    /\ co.pc = "done"
    /\ co.original_parent_uuid = "A"
    /\ co.max_attempts = 3
    /\ \A k \in DOMAIN parents : parents[k] = "B"
    /\ co.outcome = Raise("CoalesceAttemptsExceeded")
    /\ co.reads = 3

\* C11: in each poll, when original_parent_uuid is set and the parent read
\* differs from it the loop goes on polling; otherwise (original unset, or
\* parent equal to the original) the loop ends and returns the parent just
\* read.  With original_parent_uuid unset the call returns after one poll.
C11_PollDecision ==
    /\ co.pc = "interval" =>
          (co.original_parent_uuid # None
             /\ co.parent_uuid # co.original_parent_uuid)
    /\ co.outcome.kind = "return" =>
          /\ co.original_parent_uuid = None
                \/ co.parent_uuid = co.original_parent_uuid
          /\ co.outcome.val = co.parent_uuid
          /\ co.parent_uuid = ParentAt(co.reads)
    /\ (co.original_parent_uuid = None /\ co.pc = "done") =>
          (co.reads = 1 /\ co.counter = 1 /\ co.outcome = Return(parents[1]))

C11_Witness ==
    /\ co.pc = "done"
    /\ co.original_parent_uuid = None
    /\ parents[1] = "B"
    /\ co.max_attempts = 3
    /\ co.reads = 1
    /\ co.outcome = Return("B")

\* C12: while wait_for_vhd_coalesce has not failed, attempts <= max_attempts;
\* a poll whose attempt number exceeds max_attempts rescans nothing and reads
\* no parent.
C12_AttemptsWithinCeiling ==
    /\ co.outcome.kind # "raise" => co.counter <= co.max_attempts
    /\ co.pc \in {"scan", "read", "interval"} => co.counter <= co.max_attempts
    /\ co.scans <= co.max_attempts
    /\ co.reads <= co.max_attempts
    /\ co.outcome.kind = "raise" =>
          (co.scans = co.max_attempts /\ co.reads = co.max_attempts)

C12_Witness ==
    /\ co.pc = "done"
    /\ co.outcome.kind = "raise"
    /\ co.max_attempts = 2
    /\ co.counter = 3
    /\ co.scans = 2
    /\ co.reads = 2

\* C13: wait_for_vhd_coalesce terminates: it returns a parent UUID within
\* max_attempts polls or, once the attempts exceed the ceiling, fails with
\* the coalesce-timeout error carrying the attempt count.
C13_Terminates ==
    /\ <>(co.pc = "done")
    /\ [](co.pc = "done" =>
            \/ /\ co.outcome.kind = "return"
               /\ co.outcome.val \in ParentUuids
               /\ co.counter <= co.max_attempts
            \/ /\ co.outcome = Raise("CoalesceAttemptsExceeded")
               /\ co.raised_counter = co.max_attempts + 1
               /\ co.raised_counter = co.counter)

C13_Witness ==
    /\ co.pc = "done"
    /\ co.outcome = Raise("CoalesceAttemptsExceeded")
    /\ co.max_attempts = 3
    /\ co.raised_counter = 4

(* -------------------- claims: image ingestion pipeline ------------------ *)

\* The string tag the enumeration documents for each member.
TagOf(x) ==
    CASE x = KERNEL -> "kernel"
      [] x = RAMDISK -> "ramdisk"
      [] x = DISK -> "os"
      [] x = DISK_RAW -> "os_raw"
      [] x = DISK_VHD -> "vhd"

\* C14: for every member x of ImageType, to_string(x) returns its tag and
\* from_string(to_string(x)) = x.
C14_RoundTrip ==
    conv.pcA = "done" =>
        /\ conv.str = Return(TagOf(conv.x))
        /\ conv.back.kind = "return"
        /\ conv.back.val = conv.x

\* The fetch has ended, by a return.
Returned == fetch.pc = "done" /\ fetch.outcome.kind = "return"

\* The fetch has ended, by an error.
Failed == fetch.pc = "done" /\ fetch.outcome.kind = "raise"

\* The fetch went through the streaming backend.
Streaming == fetch.service = "glance" /\ fetch.image_type # DISK_VHD

\* C15: _stream_disk with image_type DISK writes one primary partition from
\* sector 63 to sector 63 + virtual_size/512 - 1 (2110 when virtual_size is
\* 1048576) and copies the image from byte offset 63*512; with any other
\* image type no partition call is made and the copy starts at offset 0.
C15_StreamDisk ==
    /\ \A k \in 1..Len(xen.device.partitions) :
         xen.device.partitions[k] =
            <<63, 63 + (fetch.virtual_size \div 512) - 1>>
    /\ (fetch.virtual_size = 1048576 /\ xen.device.partitions # <<>>)
         => xen.device.partitions[1] = <<63, 2110>>
    /\ fetch.image_type # DISK
         => xen.device.parted = 0 /\ xen.device.partitions = <<>>
    /\ xen.device.copied
         => IF fetch.image_type = DISK
            THEN /\ Len(xen.device.partitions) = 1
                 /\ xen.device.seek = <<63 * 512>>
            ELSE xen.device.seek = <<0>>

C15_Witness ==
    /\ xen.device.copied
    /\ fetch.image_type = DISK
    /\ fetch.virtual_size = 1048576
    /\ xen.device.partitions = <<<<63, 2110>>>>
    /\ xen.device.seek = <<32256>>

\* C16: in the streaming backend the VDI created has the declared size of
\* the image plus 63*512 bytes when image_type is DISK, and exactly the
\* declared size for every other type; a successful fetch of a disk type
\* returns one descriptor with the uuid of that VDI and no file.
C16_VdiSizeAndDiskDescriptor ==
    Streaming =>
      /\ xen.vdi.state # "none"
           => xen.vdi.size = IF fetch.image_type = DISK
                             THEN fetch.size + 63 * 512
                             ELSE fetch.size
      /\ (Returned /\ fetch.image_type \in {DISK, DISK_RAW})
           => /\ Len(fetch.outcome.val) = 1
              /\ fetch.outcome.val[1].vdi_uuid = VdiUuid
              /\ fetch.outcome.val[1].file = None
              /\ xen.vdi.state = "exists"

C16_Witness ==
    /\ Streaming
    /\ Returned
    /\ fetch.image_type = DISK
    /\ fetch.size = 1000
    /\ xen.vdi.size = 33256
    /\ fetch.outcome.val[1].vdi_uuid = VdiUuid

\* C17: fetching a legacy raw disk image of declared size 10 MiB with the
\* streaming backend produces a disk of 10 MiB + 63*512 bytes and the
\* descriptor {vdi_type: "os_raw", vdi_uuid: <uuid>, file: null}; stated for
\* both raw disk types the words "legacy raw" can name, DISK and DISK_RAW.
C17_LegacyRawEndToEnd ==
    (Streaming /\ Returned /\ fetch.size = 10 * 1024 * 1024
       /\ fetch.image_type \in {DISK, DISK_RAW})
      => /\ xen.vdi.size = 10 * 1024 * 1024 + 63 * 512
         /\ fetch.outcome.val = <<Descriptor("os_raw", VdiUuid, None)>>

\* C17, amended: the image that gets the disk of 10 MiB + 63*512 bytes is
\* the legacy partitioned one (DISK) and its descriptor says "os"; the
\* descriptor that says "os_raw" is that of DISK_RAW, whose disk has exactly
\* 10 MiB.
C17_LegacyPartitionedEndToEnd ==
    (Streaming /\ Returned /\ fetch.size = 10 * 1024 * 1024)
      => /\ fetch.image_type = DISK
              => /\ xen.vdi.size = 10518016
                 /\ fetch.outcome.val = <<Descriptor("os", VdiUuid, None)>>
         /\ fetch.image_type = DISK_RAW
              => /\ xen.vdi.size = 10485760
                 /\ fetch.outcome.val =
                       <<Descriptor("os_raw", VdiUuid, None)>>

C17_Witness ==
    /\ Streaming
    /\ Returned
    /\ fetch.size = 10485760
    /\ fetch.image_type = DISK
    /\ xen.vdi.size = 10518016
    /\ xen.device.copied
    /\ fetch.outcome.val[1].vdi_type = "os"

\* C18: in the streaming backend a KERNEL or RAMDISK whose declared size is
\* above max_kernel_ramdisk_size fails with the size-limit error, which names
\* the observed and the maximum size, before any VDI is created: no
\* VDI.create, no VBD and no plugin call is made in that execution.
C18_TooLargeFailsBeforeAnyVdi ==
    (Streaming /\ fetch.image_type \in {KERNEL, RAMDISK}
       /\ fetch.size > 16 * 1024 * 1024)
      => /\ xen.log = <<>>
         /\ xen.vdi.state = "none"
         /\ calls["c1"] = IdleCall
         /\ \A r \in VbdRefs : vbds[r] = NoVbd
         /\ fetch.pc \in {"fetch_image", "disk_entry", "done"}
         /\ fetch.pc = "done"
              => /\ fetch.outcome = FetchRaise("ImageTooLarge", <<>>)
                 /\ fetch.too_large = <<fetch.size, 16 * 1024 * 1024>>

C18_Witness ==
    /\ Streaming
    /\ fetch.image_type = RAMDISK
    /\ fetch.size = 16777217
    /\ fetch.pc = "done"
    /\ fetch.outcome.val = "ImageTooLarge"
    /\ fetch.too_large = <<16777217, 16777216>>
    /\ xen.log = <<>>

\* Exactly one of vdi_uuid and file is populated, by the vdi_type.
ExactlyOne(d) ==
    IF d.vdi_type \in {KERNEL_STR, RAMDISK_STR}
    THEN d.file # None /\ d.vdi_uuid = None
    ELSE d.vdi_uuid # None /\ d.file = None

\* C19: every ImageDescriptor the streaming and the objectstore backend
\* produce, returned or attached to an error, has exactly one of vdi_uuid and
\* file populated: file for kernel and ramdisk, vdi_uuid for the disk types.
C19_ExactlyOnePopulated ==
    (Streaming \/ fetch.service = "objectstore")
      => /\ Returned => \A k \in 1..Len(fetch.outcome.val) :
                           ExactlyOne(fetch.outcome.val[k])
         /\ \A k \in 1..Len(fetch.outcome.attached) :
              ExactlyOne(fetch.outcome.attached[k])

\* C19, amended: every descriptor returned has exactly one of the two; the
\* descriptor attached to an error always carries the uuid of the VDI, for
\* kernel and ramdisk too, and a file as well only when the copy-out had
\* been done and VDI.destroy failed.
C19_ReturnedExactlyOne ==
    (Streaming \/ fetch.service = "objectstore")
      => /\ Returned => /\ Len(fetch.outcome.val) = 1
                        /\ ExactlyOne(fetch.outcome.val[1])
         /\ \A k \in 1..Len(fetch.outcome.attached) :
              LET d == fetch.outcome.attached[k] IN
              /\ d.vdi_uuid = VdiUuid
              /\ d.file # None
                   => /\ d.file = KernelFile
                      /\ d.vdi_type \in {KERNEL_STR, RAMDISK_STR}
                      /\ fetch.outcome.val = "VDI.destroy Failure"

C19_Witness ==
    /\ Streaming
    /\ Returned
    /\ fetch.image_type = KERNEL
    /\ fetch.outcome.val = <<Descriptor(KERNEL_STR, None, KernelFile)>>

\* C20: in the streaming backend, when the fetch fails after the VDI was
\* created and its uuid read (plug, device wait, partitioning, copy, copy-out
\* plugin or destroy of the temporary disk failing), the error raised to the
\* caller has the descriptor of that VDI, with its uuid, attached, and the
\* VDI has not been destroyed.
C20_DescriptorAttachedOnFailure ==
    (Streaming /\ Failed /\ xen.vdi.state # "none" /\ fetch.vdi_uuid # <<>>)
      => /\ Len(fetch.outcome.attached) = 1
         /\ fetch.outcome.attached[1].vdi_uuid = VdiUuid
         /\ xen.vdi.state = "exists"

\* The calls a successful kernel or ramdisk fetch makes on the hypervisor
\* and its plugins, the scoped attachment falling between the second and
\* the third.
KernelFetchCalls ==
    <<"VDI.create", "VDI.get_uuid", "plugin glance.copy_kernel_vdi",
      "VDI.destroy">>

IsPrefix(s, t) == Len(s) <= Len(t) /\ s = SubSeq(t, 1, Len(s))

\* What C21 says of every step but the state of the VBD after the
\* attachment: the calls come in the order create, (attachment), copy-out,
\* destroy; the attachment starts after the VDI exists and has returned,
\* with the image copied, before the copy-out; the return carries the file
\* only and the VDI is gone.
KernelFetchOrder ==
    /\ IsPrefix(xen.log, KernelFetchCalls)
    /\ calls["c1"].pc # "idle" => Len(xen.log) >= 2
    /\ calls["c1"].pc \notin {"idle", "done"}
         => Len(xen.log) = 2 /\ xen.vdi.state = "exists"
    /\ Len(xen.log) > 2
         => /\ Terminal("c1")
            /\ calls["c1"].outcome = Return(None)
            /\ xen.device.copied
            /\ VbdOf("c1").unplugs >= 1
            /\ VbdOf("c1").destroys = 1
    /\ Len(xen.log) < 4 => xen.vdi.state # "destroyed"
    /\ Returned
         => /\ xen.log = KernelFetchCalls
            /\ fetch.outcome.val =
                  <<Descriptor(to_string(fetch.image_type).val, None,
                               KernelFile)>>
            /\ xen.vdi.state = "destroyed"

\* C21: a successful kernel or ramdisk fetch through the streaming backend
\* creates the temporary VDI, streams the image into it through a scoped
\* attachment that is detached before the next step, calls the copy-out
\* plugin, destroys the temporary VDI and returns a descriptor with the file
\* only; after the return the VDI no longer exists.
C21_KernelFetchOrder ==
    (Streaming /\ fetch.image_type \in {KERNEL, RAMDISK})
      => /\ KernelFetchOrder
         /\ Len(xen.log) > 2 => VbdOf("c1").state # "attached"

\* C21, amended: the same order, but of the attachment only this much: its
\* unplug and destroy have been made before the copy-out; the VBD is still
\* plugged then when the last unplug attempt failed with a code that
\* vbd_unplug_with_retry ignores.
C21_KernelFetchOrderCleanupAttempted ==
    (Streaming /\ fetch.image_type \in {KERNEL, RAMDISK})
      => /\ KernelFetchOrder
         /\ (Len(xen.log) > 2 /\ VbdOf("c1").state = "attached")
              => IgnoredUnplugFailure(LastUnplug("c1"))

C21_Witness ==
    /\ Streaming
    /\ Returned
    /\ fetch.image_type = RAMDISK
    /\ xen.log = KernelFetchCalls
    /\ xen.vdi.state = "destroyed"
    /\ VbdOf("c1").state = "destroyed"
    /\ fetch.outcome.val = <<Descriptor(RAMDISK_STR, None, KernelFile)>>

\* C22: fetch_image returns a bare file path, not a list of descriptors,
\* for KERNEL and RAMDISK, and a list of descriptors for every other type,
\* with the glance and with the objectstore service.
C22_ReturnShape ==
    Returned
      => fetch.outcome.shape = IF fetch.image_type \in {KERNEL, RAMDISK}
                               THEN "path" ELSE "list"

\* The call was made on the hypervisor or on a plugin during the fetch.
InLog(event) == \E k \in 1..Len(xen.log) : xen.log[k] = event

\* Where the fetch is, by backend.
StreamingPcs ==
    {"disk_entry", "create_vdi", "get_uuid", "attach", "copy_kernel_vdi",
     "destroy_vdi"}
VhdPcs == {"vhd_plugin", "vhd_scan", "vhd_label"}
ObjectstorePcs == {"objectstore_call", "objectstore_wait"}

\* No local streaming: no VDI.create and no VBD of a scoped attachment.
NoLocalStreaming ==
    /\ ~InLog("VDI.create")
    /\ xen.vdi.state = "none"
    /\ \A c \in Calls : calls[c] = IdleCall
    /\ \A r \in VbdRefs : vbds[r] = NoVbd
    /\ xen.device = IdleXen.device

\* C23: with glance, DISK_VHD is handled by the differencing-disk plugin
\* path only and every other type by the streaming path only; the
\* differencing-disk path and the objectstore path never stream locally: no
\* VDI.create and no VBD create or plug is made during the fetch.
C23_BackendDispatch ==
    /\ (fetch.service = "glance" /\ fetch.image_type = DISK_VHD)
         => /\ fetch.pc \in {"fetch_image", "done"} \cup VhdPcs
            /\ NoLocalStreaming
            /\ \A k \in 1..Len(xen.log) :
                 xen.log[k] \in {"plugin glance.download_vhd", "SR.scan",
                                 "VDI.set_name_label " \o VdiUuid,
                                 "VDI.set_name_label " \o SwapUuid}
    /\ (fetch.service = "glance" /\ fetch.image_type # DISK_VHD)
         => /\ fetch.pc \in {"fetch_image", "done"} \cup StreamingPcs
            /\ \A k \in 1..Len(xen.log) :
                 xen.log[k] \in {KernelFetchCalls[n] : n \in 1..4}
    /\ fetch.service = "objectstore"
         => /\ fetch.pc \in {"fetch_image", "done"} \cup ObjectstorePcs
            /\ NoLocalStreaming
            /\ \A k \in 1..Len(xen.log) :
                 xen.log[k] \in {"plugin objectstore.get_kernel",
                                 "plugin objectstore.get_vdi"}

C23_Witness ==
    /\ fetch.service = "glance"
    /\ fetch.image_type = DISK_VHD
    /\ Returned
    /\ xen.log = <<"plugin glance.download_vhd", "SR.scan",
                   "VDI.set_name_label " \o VdiUuid>>
    /\ NoLocalStreaming

(* --------------- claims: paravirtualization decision -------------------- *)

\* determine_is_pv has ended with the glance image service.
PvDecided == pv.pc = "done" /\ pv.service = "glance"

\* No scoped attachment was made.
NoAttachment ==
    /\ \A c \in Calls : calls[c] = IdleCall
    /\ \A r \in VbdRefs : vbds[r] = NoVbd
    /\ pv.probes = 0

ProbeDecides ==
    /\ calls["c1"].pc # "idle"
    /\ (PvDecided /\ pv.outcome.kind = "return")
         => /\ pv.probes = 1
            /\ calls["c1"].f = "returned"
            /\ pv.outcome = calls["c1"].pending
            /\ pv.outcome.val \in {"True", "False"}
    /\ (PvDecided /\ pv.outcome.kind = "raise")
         => pv.outcome = calls["c1"].outcome

\* The result is paravirtualized, and no attachment is made for it.
AssumedPv ==
    /\ NoAttachment
    /\ PvDecided => pv.outcome = Return("True")

\* C25: for a glance image of type DISK (the legacy partitioned-raw type)
\* the disk is attached through the scoped attachment and the bootloader
\* probe decides; for DISK_RAW the result is always paravirtualized and no
\* attachment is made.
C25_DiskProbedRawAssumed ==
    (pv.service = "glance" /\ pv.pc \in {"attach", "done"})
      => /\ pv.disk_image_type = DISK => ProbeDecides
         /\ pv.disk_image_type = DISK_RAW => AssumedPv

\* C25, amended: the two types the other way round, as the code and its
\* docstring have them: DISK_RAW is attached and probed, DISK is assumed
\* paravirtualized without an attachment.
C25_RawProbedDiskAssumed ==
    (pv.service = "glance" /\ pv.pc \in {"attach", "done"})
      => /\ pv.disk_image_type = DISK_RAW => ProbeDecides
         /\ pv.disk_image_type = DISK => AssumedPv

C25_Witness ==
    /\ PvDecided
    /\ pv.disk_image_type = DISK_RAW
    /\ pv.probes = 1
    /\ pv.outcome = Return("False")
    /\ VbdOf("c1").state = "destroyed"

(* -------------------------- claims: device wait ------------------------- *)

\* The call has read the device name of its VBD.
DeviceKnown(c) == calls[c].dev # <<>>

\* C26: after a plug _wait_for_device checks for the device node at most
\* block_device_creation_timeout times, a one-second sleep after each check
\* that did not find it; it returns at the first check that finds the node
\* and raises the StorageError when no check found it;
\* with_vdi_attached_here skips the wait exactly when the remapped device
\* name is 'autodetect'.
C26_DeviceWait ==
    \A c \in Calls :
        /\ calls[c].checks <= block_device_creation_timeout
        /\ calls[c].i <= calls[c].checks
        /\ calls[c].checks > 0 => calls[c].plug_ok /\ DeviceKnown(c)
        /\ calls[c].pc = "wait"
             => /\ calls[c].dev # <<"autodetect">>
                /\ calls[c].checks = calls[c].i
        /\ calls[c].pending = Raise("StorageError")
             => /\ calls[c].checks = block_device_creation_timeout
                /\ calls[c].i = block_device_creation_timeout
                /\ calls[c].f = "none"
        /\ (DeviceKnown(c) /\ calls[c].pc # "wait"
              /\ calls[c].pending # Raise("StorageError"))
             => IF calls[c].dev = <<"autodetect">>
                THEN calls[c].checks = 0
                ELSE calls[c].checks = calls[c].i + 1

C26_Witness ==
    /\ Terminal("c1")
    /\ calls["c1"].dev = <<"sd", "b">>
    /\ calls["c1"].checks = 2
    /\ calls["c1"].i = 1
    /\ calls["c1"].f = "returned"

(* ------------------ claims: coalesce waiter, the polls ------------------ *)

\* The polls that got past the ceiling test so far.
PollsWithinCeiling ==
    IF co.counter <= co.max_attempts THEN co.counter ELSE co.max_attempts

\* C27: every poll of wait_for_vhd_coalesce within the attempt ceiling first
\* makes the SR rescan and waits for it, and only then reads the parent of
\* the VDI; the first poll is made on entry, before any sleep; so the
\* rescans are as many as the parent reads, and at least one when
\* max_attempts >= 1.
C27_RescanThenRead ==
    /\ co.pc = "scan"
         => /\ co.scans = co.reads
            /\ co.scans = PollsWithinCeiling - 1
    /\ co.pc = "read"
         => /\ co.scans = co.reads + 1
            /\ co.scans = PollsWithinCeiling
    /\ co.pc \in {"poll", "interval", "done"}
         => /\ co.scans = co.reads
            /\ co.scans = PollsWithinCeiling
    /\ co.pc = "interval" => co.reads >= 1
    /\ (co.pc = "poll" /\ co.counter = 0) => co.scans = 0 /\ co.reads = 0
    /\ (co.pc = "done" /\ co.max_attempts >= 1)
         => co.scans >= 1 /\ co.reads >= 1

C27_Witness ==
    /\ co.pc = "done"
    /\ co.max_attempts = 3
    /\ co.outcome = Return("A")
    /\ co.scans = 3
    /\ co.reads = 3

(* ----------------------- claims: _stream_disk --------------------------- *)

\* _stream_disk has failed in the partitioning or in the chown.
FailedBeforeCopy == fetch.spc = "failed" /\ ~xen.device.chowned

\* C28: _stream_disk writes the partition table (DISK only), then chowns the
\* device node, then copies the chunks; when the partitioning or the chown
\* fails no byte is copied and the error goes unchanged through
\* with_vdi_attached_here, whose unplug and destroy are still made.
C28_StreamOrder ==
    /\ fetch.spc \in {"partition", "idle"}
         => /\ xen.device.parted = 0
            /\ ~xen.device.chowned
            /\ xen.device.seek = <<>>
    /\ xen.device.chowned
         => IF fetch.image_type = DISK
            THEN Len(xen.device.partitions) = 1 /\ xen.device.parted = 2
            ELSE xen.device.parted = 0
    /\ (xen.device.copied \/ xen.device.seek # <<>>) => xen.device.chowned
    /\ fetch.spc = "chown" => ~xen.device.chowned /\ xen.device.seek = <<>>
    /\ FailedBeforeCopy
         => /\ ~xen.device.copied
            /\ xen.device.seek = <<>>
            /\ calls["c1"].f = "raised"
            /\ calls["c1"].pending = Raise("ProcessExecutionError")
            /\ Terminal("c1")
                 => /\ calls["c1"].outcome = Raise("ProcessExecutionError")
                    /\ VbdOf("c1").unplugs >= 1
                    /\ VbdOf("c1").destroys = 1

C28_Witness ==
    /\ Terminal("c1")
    /\ fetch.image_type = DISK
    /\ Len(xen.device.partitions) = 1
    /\ FailedBeforeCopy
    /\ calls["c1"].outcome = Raise("ProcessExecutionError")
    /\ VbdOf("c1").unplugs = 2
    /\ VbdOf("c1").destroys = 1

(* ------------------ claims: differencing-disk backend ------------------- *)

\* The fetch went through the differencing-disk backend.
Vhd == fetch.service = "glance" /\ fetch.image_type = DISK_VHD

\* C29: in the differencing-disk backend the SR rescan is made only after
\* the download plugin task has completed, the name label is set only after
\* the rescan and only on the first VDI of the list the plugin answered, and
\* the list returned is that list, unchanged.
C29_VhdOrder ==
    Vhd =>
      /\ Len(xen.log) <= 3
      /\ Len(xen.log) >= 1 => xen.log[1] = "plugin glance.download_vhd"
      /\ Len(xen.log) >= 2
           => /\ xen.log[2] = "SR.scan"
              /\ xen.vhd_result # <<>>
      /\ Len(xen.log) >= 3
           => /\ xen.vhd_result[1] # <<>>
              /\ xen.log[3] = "VDI.set_name_label "
                                 \o xen.vhd_result[1][1].vdi_uuid
      /\ Returned
           => /\ Len(xen.log) = 3
              /\ fetch.outcome.val = xen.vhd_result[1]

C29_Witness ==
    /\ Vhd
    /\ Returned
    /\ fetch.outcome.val = <<[vdi_type |-> "swap", vdi_uuid |-> SwapUuid],
                             [vdi_type |-> "os", vdi_uuid |-> VdiUuid]>>
    /\ xen.log = <<"plugin glance.download_vhd", "SR.scan",
                   "VDI.set_name_label " \o SwapUuid>>

(* --------------------------- claims: snapshot --------------------------- *)

\* Position of the first occurrence of an event in the log of
\* create_snapshot, 0 when it has not happened.
SnapAt(event) ==
    IF \E k \in 1..Len(snap.log) : snap.log[k] = event
    THEN CHOOSE k \in 1..Len(snap.log) :
           /\ snap.log[k] = event
           /\ \A j \in 1..(k - 1) : snap.log[j] # event
    ELSE 0

\* C30: create_snapshot reads the original parent uuid of the VM's disk
\* before it issues the snapshot task, starts the coalesce wait only after
\* the snapshot task has completed, and returns only after the wait has
\* returned, with the parent uuid the wait returned as 'image'; when the
\* wait fails create_snapshot fails and returns no snapshot references.
C30_SnapshotOrder ==
    /\ SnapAt("VM.snapshot") > 0
         => /\ SnapAt("read_original_parent") > 0
            /\ SnapAt("read_original_parent") < SnapAt("VM.snapshot")
    /\ co.pc # "idle"
         => /\ SnapAt("VM.snapshot") > 0
            /\ snap.template_vm_ref = TemplateVmRef
            /\ SnapAt("VM.snapshot") < SnapAt("wait_for_vhd_coalesce")
            /\ co.original_parent_uuid = snap.original_parent_uuid
    /\ snap.pc = "wait" => snap.outcome = NoOutcome
    /\ (snap.pc = "done" /\ snap.outcome.kind = "return")
         => /\ co.pc = "done"
            /\ co.outcome.kind = "return"
            /\ snap.outcome = SnapReturn(TemplateVmRef, co.outcome.val,
                                         TemplateVdiUuid)
            /\ snap.outcome.val.image = co.parent_uuid
    /\ (co.pc = "done" /\ co.outcome.kind = "raise" /\ snap.pc = "done")
         => snap.outcome = co.outcome

C30_Witness ==
    /\ snap.pc = "done"
    /\ snap.original_parent_uuid = None
    /\ co.reads = 1
    /\ snap.outcome = SnapReturn(TemplateVmRef, "B", TemplateVdiUuid)

(* --------------------- claims: concurrent attachments ------------------- *)

\* The step was taken by call c: its locals changed and no other call's.
StepOf(c) ==
    /\ calls'[c] # calls[c]
    /\ \A d \in Calls \ {c} : calls'[d] = calls[d]

\* C31: the engine enforces no mutual exclusion between scoped attachments:
\* two concurrent calls on the same VDI each create a VBD of their own, both
\* VBDs can be plugged at the same time, and each call plugs, unplugs and
\* destroys only the VBD it created itself.
C31_NoMutualExclusionOwnVbdOnly ==
    /\ [](\A c \in Calls, d \in Calls :
            (c # d /\ Created(c) /\ Created(d))
              => /\ calls[c].vbd_ref # calls[d].vbd_ref
                 /\ VbdOf(c).VDI = VbdOf(d).VDI)
    /\ [][\A r \in VbdRefs :
            vbds'[r] # vbds[r]
              => \E c \in Calls : StepOf(c) /\ calls'[c].vbd_ref = r]_vars

C31_Witness ==
    /\ calls["c1"].vbd_ref # calls["c2"].vbd_ref
    /\ calls["c1"].pc = "f_run"
    /\ calls["c2"].pc = "f_run"
    /\ VbdOf("c1").state = "attached"
    /\ VbdOf("c2").state = "attached"
    /\ VbdOf("c1").VDI = VdiRef
    /\ VbdOf("c2").VDI = VdiRef

(* ------------------ claims: failures before the caller ------------------ *)

\* The try block of the call was left by a failed plug or by the timeout of
\* the device wait.
PlugOrWaitFailed(c) ==
    calls[c].pending \in {Raise("PlugFailure"), Raise("StorageError")}

\* C32: when VBD.plug fails or the device wait times out, the caller
\* operation f is never invoked in that call; unplug-with-retry and
\* VBD.destroy are still made, and the error of the plug or of the wait is
\* what the caller receives.
C32_NoCallerOperationAfterPlugOrWaitFailure ==
    \A c \in Calls :
        /\ PlugOrWaitFailed(c)
             => /\ calls[c].f = "none"
                /\ calls[c].pc \in {"unplug", "sleep", "destroy", "done"}
                /\ Terminal(c)
                     => /\ calls[c].outcome = calls[c].pending
                        /\ VbdOf(c).unplugs >= 1
                        /\ VbdOf(c).destroys = 1
        /\ calls[c].pending = Raise("PlugFailure")
             => ~calls[c].plug_ok /\ calls[c].checks = 0
        /\ calls[c].pending = Raise("StorageError")
             => calls[c].plug_ok /\ VbdOf(c).plugs = 1
        /\ calls[c].f # "none"
             => calls[c].plug_ok /\ ~PlugOrWaitFailed(c)

C32_Witness ==
    /\ Terminal("c1")
    /\ calls["c1"].outcome = Raise("PlugFailure")
    /\ calls["c1"].f = "none"
    /\ VbdOf("c1").unplugs = 1
    /\ VbdOf("c1").destroys = 1

(* ------------- claims: coalesce waiter, the value returned -------------- *)

\* Every poll of the call sees a parent other than the original one.
ParentStaysChanged ==
    /\ co.original_parent_uuid # None
    /\ \A k \in DOMAIN parents : parents[k] # co.original_parent_uuid

\* C33: when wait_for_vhd_coalesce is called with original_parent_uuid set
\* and returns a value, that value is original_parent_uuid; a poll that reads
\* a parent other than the original never ends the loop; so when the parent
\* has changed and stays changed the call ends by the attempt-ceiling error
\* only.
C33_ReturnsOriginalParentOnly ==
    /\ []((co.original_parent_uuid # None /\ co.outcome.kind = "return")
            => /\ co.outcome.val = co.original_parent_uuid
               /\ ParentAt(co.reads) = co.original_parent_uuid)
    /\ []((ParentStaysChanged /\ co.pc = "done")
            => /\ co.outcome = Raise("CoalesceAttemptsExceeded")
               /\ co.reads = co.max_attempts)
    /\ [][(/\ co.pc = "read"
           /\ co.original_parent_uuid # None
           /\ ParentAt(co.reads + 1) # co.original_parent_uuid)
            => /\ co'.pc = "interval"
               /\ co'.outcome = NoOutcome
               /\ co'.parent_uuid = ParentAt(co.reads + 1)]_vars

C33_Witness ==
    /\ co.pc = "done"
    /\ co.original_parent_uuid = "B"
    /\ parents = <<"A", None, "A">>
    /\ co.max_attempts = 2
    /\ co.reads = 2
    /\ co.outcome = Raise("CoalesceAttemptsExceeded")

(* ------------- claims: streaming backend, no disk left unnamed --------- *)

\* The outcome of the fetch names the created VDI: the descriptor returned,
\* or the descriptor attached to the error raised, has its uuid.
NamesVdi ==
    \/ /\ fetch.outcome.kind = "return"
       /\ \E k \in DOMAIN fetch.outcome.val :
              fetch.outcome.val[k].vdi_uuid = VdiUuid
    \/ /\ fetch.outcome.kind = "raise"
       /\ \E k \in DOMAIN fetch.outcome.attached :
              fetch.outcome.attached[k].vdi_uuid = VdiUuid

\* C34: every execution of _fetch_image_glance_disk that has ended after
\* creating a VDI has either destroyed that VDI, or returned a descriptor
\* with its vdi_uuid, or raised an error with a descriptor with its vdi_uuid
\* attached, whatever failed after the creation.
C34_NoSilentDiskLeak ==
    (Streaming /\ fetch.pc = "done" /\ xen.vdi.state # "none")
      => \/ xen.vdi.state = "destroyed"
         \/ NamesVdi

====
